---- MODULE Spec2Model ----
(***************************************************************************)
(* Ollama Model Admin (Advanced): the process orchestration layer.         *)
(* OllamaCLI's streaming operations and their progress extraction, the     *)
(* three queues of ModelAdminApp, the queue pump and the Tk event loop,    *)
(* and the background threads the UI handlers start.                       *)
(***************************************************************************)
EXTENDS Integers, Sequences, FiniteSets, TLC

\* ------------------------------------------------------------- bounds
\* Longest output line, in characters, of the extraction specification.
MaxLineLen == 4
\* Output lines all subprocesses together emit in one behaviour.
MaxLines == 2
\* Operations the user starts from the UI in one behaviour.
MaxOps == 1
\* The same two bounds in the specifications that run the pump beside the
\* streaming operations.
MaxPumpedLines == 1
MaxPumpedOps == 2
\* And in the specification whose threads are scheduled fairly.
MaxLiveLines == 2
MaxLiveOps == 1
\* Output lines one followed OllamaCLI call reads from its process.
MaxCliLines == 2
\* Longest model name, in characters, that the listing is given.
MaxNameLen == 3
\* Entries of a structured listing and data lines of a text listing.
MaxEntries == 2
MaxRows == 3
MaxRemoveOps == 2
MaxRemoveLines == 1
MaxBasicOps == 3
MaxRaises == 2

\* ----------------------------------------------------- text and regex
Digits == {"0", "3", "5", "7"}
\* The characters \s matches, among those of the alphabet.
Whitespace == {" "}
Alphabet == Digits \cup Whitespace \cup {"%", "x"}

RECURSIVE SeqsUpTo(_, _)
SeqsUpTo(S, n) ==
  IF n = 0 THEN {<<>>}
  ELSE LET shorter == SeqsUpTo(S, n - 1)
       IN  shorter \cup {Append(s, c) : s \in {t \in shorter : Len(t) = n - 1}, c \in S}

\* Every line of at most MaxLineLen characters.
Lines == SeqsUpTo(Alphabet, MaxLineLen)

Max(a, b) == IF a >= b THEN a ELSE b
Min(a, b) == IF a <= b THEN a ELSE b

DigitValue(c) ==
  CASE c = "0" -> 0 [] c = "3" -> 3 [] c = "5" -> 5 [] c = "7" -> 7

\* int(m.group(1)): the decimal value of a string of digits.
RECURSIVE int(_)
int(ds) ==
  IF ds = <<>> THEN 0
  ELSE 10 * int(SubSeq(ds, 1, Len(ds) - 1)) + DigitValue(ds[Len(ds)])

\* The pattern (\d{1,3})%\s*$ matched at position i with a group of k digits.
MatchAt(line, i, k) ==
  /\ i + k <= Len(line)
  /\ \A j \in i..(i + k - 1) : line[j] \in Digits
  /\ line[i + k] = "%"
  /\ \A j \in (i + k + 1)..Len(line) : line[j] \in Whitespace

MatchStarts(line) ==
  {i \in 1..Len(line) : \E k \in 1..3 : MatchAt(line, i, k)}

NoMatch == <<"None">>

\* The pattern without its end anchor, (\d{1,3})%: the first percentage
\* anywhere in the line.
re_search_unanchored(line) ==
  LET starts == {i \in 1..Len(line) :
                   \E k \in 1..3 : /\ i + k <= Len(line)
                                   /\ \A j \in i..(i + k - 1) : line[j] \in Digits
                                   /\ line[i + k] = "%"}
  IN  IF starts = {} THEN NoMatch
      ELSE LET i == CHOOSE a \in starts : \A b \in starts : a <= b
               k == CHOOSE a \in 1..3 :
                      /\ i + a <= Len(line) /\ line[i + a] = "%"
                      /\ \A j \in i..(i + a - 1) : line[j] \in Digits
           IN  SubSeq(line, i, i + k - 1)

\* re.search(r"(\d{1,3})%\s*$", line): group 1 of the leftmost match, the
\* longest group first; NoMatch when the pattern matches nowhere.
re_search(line) ==
  IF MatchStarts(line) = {} THEN NoMatch
  ELSE LET i == CHOOSE a \in MatchStarts(line) : \A b \in MatchStarts(line) : a <= b
           k == CHOOSE a \in 1..3 :
                  /\ MatchAt(line, i, a)
                  /\ \A b \in 1..3 : MatchAt(line, i, b) => b <= a
       IN  SubSeq(line, i, i + k - 1)

\* pull_model without the running maximum: the last parsed value wins.
pull_last_percent_nomax(last_percent, line) ==
  LET m == re_search(line)
  IN  IF m # NoMatch THEN Min(100, int(m)) ELSE last_percent

\* pull_model forgetting last_percent on a line without a percentage.
pull_last_percent_reset(last_percent, line) ==
  LET m == re_search(line)
  IN  IF m # NoMatch THEN Max(last_percent, Min(100, int(m))) ELSE 0

\* pull_model's update of last_percent for one output line.
pull_last_percent(last_percent, line) ==
  LET m == re_search(line)
  IN  IF m # NoMatch THEN Max(last_percent, Min(100, int(m))) ELSE last_percent

\* -------------------------------------------------------------- state
VARIABLES
  binary_path,   \* OllamaCLI.binary_path of self.cli
  status_q,      \* ModelAdminApp.status_q
  progress_q,    \* ModelAdminApp.progress_q
  log_q,         \* ModelAdminApp.log_q
  status_var,    \* the status line shown
  progress_var,  \* the progress bar's value
  tree,          \* the rows of the models Treeview, in order
  logged,        \* the lines handed to LOGGER.info by the pump, in order
  after_q,       \* callbacks scheduled on the Tk event loop with after(0, ...)
  threads,       \* the background threads started so far
  ui_pc,         \* where the Tk main loop is: idle, or inside a pump pass
  ops,           \* operations the user has started
  lines_out,     \* output lines the subprocesses have emitted
  pushed_log,    \* history: every item put on log_q, in put order
  bg_ui_calls,   \* history: Tk calls made from a background thread
  spawns,        \* history: <<context, operation>> of every process spawn
  listed,        \* history: the inventories list_models has returned
  budget,        \* the bounds of this behaviour on ops and lines_out
  obs,           \* the extraction specification's input and result
  cli,           \* one OllamaCLI call followed from its entry to its return
  drained,       \* history: what each loop of the current pump pass has taken
  basic,         \* the basic manager: its tree, model_data and pending refreshes
  pump           \* whether the pump is scheduled, and the passes that raised

vars == <<binary_path, status_q, progress_q, log_q, status_var, progress_var,
          tree, logged, after_q, threads, ui_pc, ops, lines_out, pushed_log,
          bg_ui_calls, spawns, listed, budget, obs, cli, drained, basic, pump>>

None == "None"
BinaryPaths == {None, "/usr/local/bin/ollama"}

\* What the binary can print, one line at a time, in the application model.
OutputLines ==
  { <<"x">>, <<"5", "7", "%">>, <<"7", "5", "0", "%">> }

\* What `ollama list` can report.
Inventories == { <<>>, <<"llama3:8b">> }

\* Exit codes of the binary.
Codes == {0, 1}

CodeText(code) == CASE code = 0 -> "0" [] code = 1 -> "1"

\* A thread's record: the locals of its work function and of the OllamaCLI
\* operation it runs, and four histories: the lines it has read, the
\* percent values passed to on_progress, and what it has put on progress_q
\* and on log_q.
NewThread(kind, pc) ==
  [kind |-> kind, pc |-> pc, last_percent |-> 0, line |-> <<>>, ok |-> FALSE,
   lines |-> <<>>, cb_pcts |-> <<>>, prog_puts |-> <<>>, log_puts |-> <<>>,
   names |-> <<>>, attempted |-> <<>>, after_calls |-> 0]

Running == {t \in 1..Len(threads) : threads[t].pc # "done"}

\* queue.Queue() has maxsize 0: put never waits for room.
CanPut_maxsize1(q) == Len(q) < 1

CanPut(q) == TRUE

ObsOff == [phase |-> "off", line |-> <<>>, runningMax |-> 0, newMax |-> 0]

\* No OllamaCLI call is followed.
CliOff == [pc |-> "off"]

\* The pump's passes are not recorded.
DrainedOff == [on |-> FALSE, status |-> <<>>, progress |-> <<>>, log |-> <<>>]

\* _start_queues_pump has run: self.root.after(100, pump).
PumpScheduled == [scheduled |-> TRUE, raised |-> 0]

\* The basic manager is not followed.
BasicOff == [on |-> FALSE]

\* The record of a pass that has taken nothing yet.
DrainedNone == [on |-> TRUE, status |-> <<>>, progress |-> <<>>, log |-> <<>>]

\* ModelAdminApp.__init__ has run: the queues are empty, the pump is
\* scheduled, _startup_checks has probed the binary on the calling thread
\* and refresh_models has started the first refresh thread.
InitApp ==
  /\ binary_path \in BinaryPaths
  /\ status_q = <<>> /\ progress_q = <<>> /\ log_q = <<>>
  /\ status_var = <<"Refreshing models...">>
  /\ progress_var = 5
  /\ tree = <<>>
  /\ logged = <<>>
  /\ after_q = <<>>
  /\ threads = <<NewThread("refresh", "work")>>
  /\ ui_pc = "idle"
  /\ ops = 0
  /\ lines_out = 0
  /\ pushed_log = <<>>
  /\ bg_ui_calls = {}
  /\ spawns = IF binary_path = None THEN {} ELSE {<<"ui", "_startup_checks">>}
  /\ listed = {}

Init ==
  /\ InitApp
  /\ budget = [ops |-> MaxOps, lines |-> MaxLines]
  /\ obs = ObsOff
  /\ cli = CliOff
  /\ drained = DrainedOff
  /\ basic = BasicOff
  /\ pump = PumpScheduled

\* ------------------------------------------------- background threads
\* What a thread step leaves alone, had an operation resolved the binary
\* path again on its way.
ThreadResolvesBinary ==
  /\ binary_path' \in BinaryPaths
  /\ UNCHANGED <<status_var, progress_var, tree, logged, ui_pc, ops,
                 budget, obs, cli, drained, basic, pump>>

AppVarsUnchangedByThread ==
  UNCHANGED <<binary_path, status_var, progress_var, tree, logged, ui_pc, ops,
              budget, obs, cli, drained, basic, pump>>

SetThread(t, r) == threads' = [threads EXCEPT ![t] = r]

\* Whether subprocess.Popen/run starts a process: never without a binary
\* path, and a resolved path may have vanished since it was resolved.
SpawnOutcomes == IF binary_path = None THEN {FALSE} ELSE {TRUE, FALSE}

SpawnErrorText == <<"[Errno 2] No such file or directory">>

FinalMsg(kind, code) ==
  IF kind = "pull"
  THEN IF code = 0 THEN <<"Pull complete">>
       ELSE <<"Pull failed (code ", CodeText(code), ")">>
  ELSE IF code = 0 THEN <<"Model created">>
       ELSE <<"Create failed (code ", CodeText(code), ")">>

\* What list_models can return: [] without a binary path, where it spawns
\* nothing, and otherwise what the listing parses to.
list_models == IF binary_path = None THEN {<<>>} ELSE Inventories

\* refresh_models.work: models = self.cli.list_models(), then
\* self.root.after(0, update), with update closed over models.
RefreshWork(t) ==
  /\ t \in Running /\ threads[t].kind = "refresh" /\ threads[t].pc = "work"
  /\ \E models \in list_models :
       /\ listed' = listed \cup {models}
       /\ after_q' = Append(after_q, [cb |-> "update", models |-> models])
  /\ spawns' = IF binary_path = None THEN spawns
               ELSE spawns \cup {<<"bg", "list_models">>}
  /\ bg_ui_calls' = bg_ui_calls \cup {<<"refresh", "root.after">>}
  /\ SetThread(t, [threads[t] EXCEPT !.pc = "done"])
  /\ UNCHANGED <<status_q, progress_q, log_q, lines_out, pushed_log>>
  /\ AppVarsUnchangedByThread

\* subprocess.Popen of pull_model and create_model_from_modelfile. A failure
\* to spawn is caught by the operation's except clause, which returns
\* (False, str(e)); work then puts the message on log_q.
Popen(t) ==
  /\ t \in Running /\ threads[t].pc = "popen"
  /\ \E spawned \in SpawnOutcomes :
       IF spawned
       THEN /\ SetThread(t, [threads[t] EXCEPT !.last_percent = 0, !.pc = "read"])
            /\ spawns' = spawns \cup {<<"bg", threads[t].kind>>}
            /\ UNCHANGED <<log_q, pushed_log>>
       ELSE /\ CanPut(log_q)
            /\ log_q' = Append(log_q, SpawnErrorText)
            /\ pushed_log' = Append(pushed_log, SpawnErrorText)
            /\ SetThread(t, [threads[t] EXCEPT !.ok = FALSE,
                                               !.log_puts = Append(@, SpawnErrorText),
                                               !.pc = "after_refresh"])
            /\ spawns' = spawns
  /\ UNCHANGED <<status_q, progress_q, after_q, lines_out, bg_ui_calls, listed>>
  /\ AppVarsUnchangedByThread

\* One iteration of pull_model's `for line in proc.stdout`, up to the first
\* put of on_progress(last_percent, line): self.progress_q.put(pct or 0).
PullLine(t) ==
  /\ t \in Running /\ threads[t].kind = "pull" /\ threads[t].pc = "read"
  /\ lines_out < budget.lines
  /\ CanPut(progress_q)
  /\ \E line \in OutputLines :
       LET lp  == pull_last_percent(threads[t].last_percent, line)
           pct == IF lp = 0 THEN 0 ELSE lp
       IN  /\ progress_q' = Append(progress_q, pct)
           /\ SetThread(t, [threads[t] EXCEPT !.line = line, !.last_percent = lp,
                                              !.lines = Append(@, line),
                                              !.cb_pcts = Append(@, lp),
                                              !.prog_puts = Append(@, pct),
                                              !.pc = "cb_log"])
  /\ lines_out' = lines_out + 1
  /\ UNCHANGED <<status_q, log_q, after_q, pushed_log, bg_ui_calls, spawns, listed>>
  /\ AppVarsUnchangedByThread

\* on_progress, second statement: self.log_q.put(line).
PullCbLog(t) ==
  /\ t \in Running /\ threads[t].kind = "pull" /\ threads[t].pc = "cb_log"
  /\ CanPut(log_q)
  /\ log_q' = Append(log_q, threads[t].line)
  /\ pushed_log' = Append(pushed_log, threads[t].line)
  /\ SetThread(t, [threads[t] EXCEPT !.log_puts = Append(@, threads[t].line),
                                     !.line = <<>>, !.pc = "read"])
  /\ UNCHANGED <<status_q, progress_q, after_q, lines_out, bg_ui_calls, spawns, listed>>
  /\ AppVarsUnchangedByThread

\* One iteration of create_model_from_modelfile's `for line in proc.stdout`,
\* up to the first put of on_out(line): self.log_q.put(line). The create
\* flows' on_out goes on to progress_q only when the line matches the
\* pattern; copy_selected's on_out has no more to do.
CreateLine(t) ==
  /\ t \in Running /\ threads[t].kind \in {"create", "copy"} /\ threads[t].pc = "read"
  /\ lines_out < budget.lines
  /\ CanPut(log_q)
  /\ \E line \in OutputLines :
       /\ log_q' = Append(log_q, line)
       /\ pushed_log' = Append(pushed_log, line)
       /\ IF threads[t].kind = "create" /\ re_search(line) # NoMatch
          THEN SetThread(t, [threads[t] EXCEPT !.line = line, !.lines = Append(@, line),
                                             !.log_puts = Append(@, line),
                                             !.pc = "cb_progress"])
          ELSE SetThread(t, [threads[t] EXCEPT !.lines = Append(@, line),
                                             !.log_puts = Append(@, line),
                                             !.pc = "read"])
  /\ lines_out' = lines_out + 1
  /\ UNCHANGED <<status_q, progress_q, after_q, bg_ui_calls, spawns, listed>>
  /\ AppVarsUnchangedByThread

\* What on_out puts on progress_q for a line the pattern matches.
on_out_progress(line) == int(re_search(line))

\* on_out of the create flows: self.progress_q.put(int(m.group(1))).
CreateCbProgress(t) ==
  /\ t \in Running /\ threads[t].kind = "create" /\ threads[t].pc = "cb_progress"
  /\ CanPut(progress_q)
  /\ progress_q' = Append(progress_q, on_out_progress(threads[t].line))
  /\ SetThread(t, [threads[t] EXCEPT
                     !.prog_puts = Append(@, on_out_progress(threads[t].line)),
                     !.line = <<>>, !.pc = "read"])
  /\ UNCHANGED <<status_q, log_q, after_q, lines_out, pushed_log, bg_ui_calls,
                 spawns, listed>>
  /\ AppVarsUnchangedByThread

\* End of the output stream: code = proc.wait(), the operation returns
\* (code == 0, message) and work puts the message on log_q.
StreamEnd(t) ==
  /\ t \in Running /\ threads[t].pc = "read"
  /\ CanPut(log_q)
  /\ \E code \in Codes :
       /\ log_q' = Append(log_q, FinalMsg(threads[t].kind, code))
       /\ pushed_log' = Append(pushed_log, FinalMsg(threads[t].kind, code))
       /\ SetThread(t, [threads[t] EXCEPT
                          !.ok = (code = 0),
                          !.log_puts = Append(@, FinalMsg(threads[t].kind, code)),
                          !.pc = "after_refresh"])
  /\ UNCHANGED <<status_q, progress_q, after_q, lines_out, bg_ui_calls, spawns, listed>>
  /\ AppVarsUnchangedByThread

\* work: self.root.after(0, self.refresh_models). The work functions of
\* copy_selected and remove_selected end here.
AfterRefresh(t) ==
  /\ t \in Running /\ threads[t].pc = "after_refresh"
  /\ after_q' = Append(after_q, [cb |-> "refresh_models", models |-> <<>>])
  /\ bg_ui_calls' = bg_ui_calls \cup {<<threads[t].kind, "root.after">>}
  /\ SetThread(t, [threads[t] EXCEPT
                     !.after_calls = @ + 1,
                     !.pc = IF threads[t].kind \in {"copy", "remove"}
                            THEN "done" ELSE "status_ready"])
  /\ UNCHANGED <<status_q, progress_q, log_q, lines_out, pushed_log, spawns, listed>>
  /\ AppVarsUnchangedByThread

\* work: self.status_q.put("Ready").
StatusReady(t) ==
  /\ t \in Running /\ threads[t].pc = "status_ready"
  /\ CanPut(status_q)
  /\ status_q' = Append(status_q, <<"Ready">>)
  /\ SetThread(t, [threads[t] EXCEPT !.pc = "progress_final"])
  /\ UNCHANGED <<progress_q, log_q, after_q, lines_out, pushed_log, bg_ui_calls,
                 spawns, listed>>
  /\ AppVarsUnchangedByThread

\* work: self.progress_q.put(100 if ok else 0), the thread's last statement.
ProgressFinal(t) ==
  /\ t \in Running /\ threads[t].pc = "progress_final"
  /\ CanPut(progress_q)
  /\ LET v == IF threads[t].ok THEN 100 ELSE 0
     IN  /\ progress_q' = Append(progress_q, v)
         /\ SetThread(t, [threads[t] EXCEPT !.prog_puts = Append(@, v), !.pc = "done"])
  /\ UNCHANGED <<status_q, log_q, after_q, lines_out, pushed_log, bg_ui_calls,
                 spawns, listed>>
  /\ AppVarsUnchangedByThread

\* copy_selected.work: ok, modelfile = self.cli.show_modelfile(model_name);
\* when `not ok or not modelfile` the failure is put on log_q, and otherwise
\* the status on status_q.
CopyShowModelfile(t) ==
  /\ t \in Running /\ threads[t].kind = "copy" /\ threads[t].pc = "show_modelfile"
  /\ \E spawned \in SpawnOutcomes, fetched \in BOOLEAN :
       /\ spawns' = IF spawned THEN spawns \cup {<<"bg", "show_modelfile">>} ELSE spawns
       /\ IF spawned /\ fetched
          THEN /\ CanPut(status_q)
               /\ status_q' = Append(status_q, <<"Creating">>)
               /\ SetThread(t, [threads[t] EXCEPT !.pc = "popen"])
               /\ UNCHANGED <<log_q, pushed_log>>
          ELSE /\ CanPut(log_q)
               /\ log_q' = Append(log_q, <<"Export modelfile failed">>)
               /\ pushed_log' = Append(pushed_log, <<"Export modelfile failed">>)
               /\ SetThread(t, [threads[t] EXCEPT
                                  !.log_puts = Append(@, <<"Export modelfile failed">>),
                                  !.pc = "messagebox"])
               /\ UNCHANGED status_q
  /\ UNCHANGED <<progress_q, after_q, lines_out, bg_ui_calls, listed>>
  /\ AppVarsUnchangedByThread

\* copy_selected.work: messagebox.showerror("Copy", ...) and return.
CopyMsgbox(t) ==
  /\ t \in Running /\ threads[t].kind = "copy" /\ threads[t].pc = "messagebox"
  /\ bg_ui_calls' = bg_ui_calls \cup {<<"copy", "messagebox.showerror">>}
  /\ SetThread(t, [threads[t] EXCEPT !.pc = "done"])
  /\ UNCHANGED <<status_q, progress_q, log_q, after_q, lines_out, pushed_log,
                 spawns, listed>>
  /\ AppVarsUnchangedByThread

\* What remove_model returns: (True, stdout or "Removed") for exit code 0,
\* (False, stderr or "Failed to remove") for another, and (False, str(e))
\* when the run raises.
RemoveOutcomes ==
  {[ok |-> FALSE, msg |-> SpawnErrorText]}
    \cup (IF binary_path = None THEN {}
          ELSE {[ok |-> TRUE, msg |-> <<"deleted">>],
                [ok |-> FALSE, msg |-> <<"Failed to remove">>]})

\* f"Remove {name}: {'OK' if ok else 'FAIL'} - {msg}".
RemoveLogLine(name, ok, msg) ==
  <<"Remove ", name, ": ", IF ok THEN "OK" ELSE "FAIL", " - ">> \o msg

\* The share of the names before the current one.
pct_before(idx, total) == ((idx - 1) * 100) \div total

\* pct = int((idx / total) * 100), for 1 <= idx <= total.
pct(idx, total) == (idx * 100) \div total

\* remove_selected.work, the head of the loop and its first statement:
\* ok, msg = self.cli.remove_model(name) for the next of the names.
RemoveModel(t) ==
  /\ t \in Running /\ threads[t].kind = "remove" /\ threads[t].pc = "remove_model"
  /\ LET name == threads[t].names[Len(threads[t].attempted) + 1]
     IN  \E out \in RemoveOutcomes :
           /\ spawns' = IF out.msg = SpawnErrorText THEN spawns
                        ELSE spawns \cup {<<"bg", "remove_model">>}
           /\ SetThread(t, [threads[t] EXCEPT
                              !.attempted = Append(@, name),
                              !.ok = out.ok,
                              !.line = RemoveLogLine(name, out.ok, out.msg),
                              !.pc = "log_put"])
  /\ UNCHANGED <<status_q, progress_q, log_q, after_q, lines_out, pushed_log,
                 bg_ui_calls, listed>>
  /\ AppVarsUnchangedByThread

\* remove_selected.work: self.log_q.put(f"Remove {name}: ...").
RemoveLog(t) ==
  /\ t \in Running /\ threads[t].kind = "remove" /\ threads[t].pc = "log_put"
  /\ CanPut(log_q)
  /\ log_q' = Append(log_q, threads[t].line)
  /\ pushed_log' = Append(pushed_log, threads[t].line)
  /\ SetThread(t, [threads[t] EXCEPT !.log_puts = Append(@, threads[t].line),
                                     !.line = <<>>, !.pc = "progress_put"])
  /\ UNCHANGED <<status_q, progress_q, after_q, lines_out, bg_ui_calls, spawns,
                 listed>>
  /\ AppVarsUnchangedByThread

\* remove_selected.work: self.progress_q.put(pct), the last statement of
\* the loop body; after the last name the loop is left.
RemoveProgress(t) ==
  /\ t \in Running /\ threads[t].kind = "remove" /\ threads[t].pc = "progress_put"
  /\ CanPut(progress_q)
  /\ LET idx   == Len(threads[t].attempted)
         total == Len(threads[t].names)
     IN  /\ progress_q' = Append(progress_q, pct(idx, total))
         /\ SetThread(t, [threads[t] EXCEPT
                            !.prog_puts = Append(@, pct(idx, total)),
                            !.pc = IF idx < total THEN "remove_model"
                                   ELSE "after_refresh"])
  /\ UNCHANGED <<status_q, log_q, after_q, lines_out, pushed_log, bg_ui_calls,
                 spawns, listed>>
  /\ AppVarsUnchangedByThread

ThreadStep(t) ==
  \/ RefreshWork(t)
  \/ Popen(t) \/ PullLine(t) \/ PullCbLog(t) \/ CreateLine(t) \/ CreateCbProgress(t)
  \/ StreamEnd(t) \/ AfterRefresh(t) \/ StatusReady(t) \/ ProgressFinal(t)
  \/ CopyShowModelfile(t) \/ CopyMsgbox(t)

\* ------------------------------------------------- the Tk main loop
QueuesAndHistoryUnchanged ==
  UNCHANGED <<status_q, progress_q, log_q, logged, lines_out, pushed_log,
              bg_ui_calls, listed, budget, obs, cli, drained, basic, pump>>

\* The body of refresh_models: the status and progress are set, the rows of
\* the tree are deleted, and a thread running work is started.
refresh_models_body ==
  /\ status_var' = <<"Refreshing models...">>
  /\ progress_var' = 5
  /\ tree' = <<>>
  /\ threads' = Append(threads, NewThread("refresh", "work"))

\* The Refresh button.
refresh_models ==
  /\ ui_pc = "idle"
  /\ ops' = ops + 1
  /\ refresh_models_body
  /\ UNCHANGED <<binary_path, after_q, ui_pc, spawns>>
  /\ QueuesAndHistoryUnchanged

\* refresh_models.work.update: one tree.insert(..., "end", ...) per model,
\* after the rows the tree holds.
update_rows(rows, models) == rows \o models

\* The event loop runs the oldest callback scheduled with after(0, ...):
\* refresh_models.work.update, or refresh_models itself.
RunAfterCallback ==
  /\ ui_pc = "idle" /\ after_q # <<>>
  /\ after_q' = Tail(after_q)
  /\ IF Head(after_q).cb = "update"
     THEN /\ tree' = update_rows(tree, Head(after_q).models)
          /\ status_var' = <<"Found", Len(Head(after_q).models)>>
          /\ progress_var' = IF Head(after_q).models # <<>> THEN 100 ELSE 0
          /\ UNCHANGED threads
     ELSE refresh_models_body
  /\ UNCHANGED <<binary_path, ui_pc, ops, spawns>>
  /\ QueuesAndHistoryUnchanged

\* The Pull button with a non-empty model ref.
_pull_registry ==
  /\ ui_pc = "idle"
  /\ ops' = ops + 1
  /\ progress_var' = 0
  /\ status_var' = <<"Pulling">>
  /\ threads' = Append(threads, NewThread("pull", "popen"))
  /\ UNCHANGED <<binary_path, tree, after_q, ui_pc, spawns>>
  /\ QueuesAndHistoryUnchanged

\* The Create button of the HuggingFace panel with a model name. The work
\* functions of _local_create_model and _editor_create_model are the same.
_hf_create_model ==
  /\ ui_pc = "idle"
  /\ ops' = ops + 1
  /\ status_var' = <<"Creating">>
  /\ progress_var' = 0
  /\ threads' = Append(threads, NewThread("create", "popen"))
  /\ UNCHANGED <<binary_path, tree, after_q, ui_pc, spawns>>
  /\ QueuesAndHistoryUnchanged

\* The Copy button with a row selected and a new name entered.
copy_selected ==
  /\ ui_pc = "idle"
  /\ \E i \in 1..Len(tree) :
       threads' = Append(threads, [NewThread("copy", "show_modelfile")
                                     EXCEPT !.names = <<tree[i]>>])
  /\ ops' = ops + 1
  /\ UNCHANGED <<binary_path, status_var, progress_var, tree, after_q, ui_pc, spawns>>
  /\ QueuesAndHistoryUnchanged

\* The rows at the positions of S, in the order of the tree.
RECURSIVE RowsAt(_, _, _)
RowsAt(rows, S, i) ==
  IF i > Len(rows) THEN <<>>
  ELSE (IF i \in S THEN <<rows[i]>> ELSE <<>>) \o RowsAt(rows, S, i + 1)

\* What self.tree.selection() can hold when it is not empty.
Selections(rows) == {RowsAt(rows, S, 1) : S \in (SUBSET (1..Len(rows))) \ {{}}}

\* The Remove button, had it waited for the running operations to end.
remove_selected_exclusive ==
  /\ ui_pc = "idle"
  /\ Running = {}
  /\ \E names \in Selections(tree) :
       threads' = Append(threads, [NewThread("remove", "remove_model")
                                     EXCEPT !.names = names])
  /\ status_var' = <<"Removing...">>
  /\ progress_var' = 0
  /\ ops' = ops + 1
  /\ UNCHANGED <<binary_path, tree, after_q, ui_pc, spawns>>
  /\ QueuesAndHistoryUnchanged

\* The Remove button with rows selected and the dialog confirmed: the
\* status and progress are set and a thread running work is started.
remove_selected ==
  /\ ui_pc = "idle"
  /\ \E names \in Selections(tree) :
       threads' = Append(threads, [NewThread("remove", "remove_model")
                                     EXCEPT !.names = names])
  /\ status_var' = <<"Removing...">>
  /\ progress_var' = 0
  /\ ops' = ops + 1
  /\ UNCHANGED <<binary_path, tree, after_q, ui_pc, spawns>>
  /\ QueuesAndHistoryUnchanged

\* The Export button with a row selected: the handler itself calls
\* self.cli.show_modelfile and then shows a dialog.
export_modelfile_selected ==
  /\ ui_pc = "idle"
  /\ tree # <<>>
  /\ ops' = ops + 1
  /\ \E spawned \in SpawnOutcomes :
       spawns' = IF spawned THEN spawns \cup {<<"ui", "show_modelfile">>} ELSE spawns
  /\ UNCHANGED <<binary_path, status_var, progress_var, tree, after_q, threads, ui_pc>>
  /\ QueuesAndHistoryUnchanged

\* The Re-detect button: self.cli = OllamaCLI() resolves the path again and
\* the handler calls ensure_available, which probes a resolved path.
_detect_ollama ==
  /\ ui_pc = "idle"
  /\ ops' = ops + 1
  /\ \E p \in BinaryPaths :
       /\ binary_path' = p
       /\ spawns' = IF p = None THEN spawns ELSE spawns \cup {<<"ui", "ensure_available">>}
  /\ UNCHANGED <<status_var, progress_var, tree, after_q, threads, ui_pc>>
  /\ QueuesAndHistoryUnchanged

\* ---------------------------------------------------------- the pump
PumpFrame ==
  UNCHANGED <<binary_path, tree, after_q, threads, ops, lines_out, pushed_log,
              bg_ui_calls, spawns, listed, budget, obs, cli, basic>>

\* Whether the pump is scheduled after a pass, had the reschedule been the
\* last statement of the try block.
after_pass_no_finally(raised) == ~raised

\* finally: self.root.after(100, pump), whether the pass raised or not.
after_pass(raised) == TRUE

\* The item shown had the first one taken stayed on display.
First(q) == q[1]

\* The item on display after a loop has set each item it took in turn.
Last(q) == q[Len(q)]

\* What a loop leaves in its queue had it taken one item per pass.
after_drain_one(q) == IF q = <<>> THEN q ELSE Tail(q)

\* What a loop leaves in its queue: it calls get_nowait until queue.Empty.
after_drain(q) == <<>>

\* The timer fires and pump runs its first loop: status_q.get_nowait() and
\* status_var.set(msg) until queue.Empty.
PumpStatus ==
  /\ ui_pc = "idle" /\ pump.scheduled
  /\ pump' = [pump EXCEPT !.scheduled = FALSE]
  /\ ui_pc' = "progress"
  /\ status_q' = after_drain(status_q)
  /\ status_var' = IF status_q # <<>> THEN Last(status_q) ELSE status_var
  /\ drained' = IF drained.on THEN [DrainedNone EXCEPT !.status = status_q] ELSE drained
  /\ UNCHANGED <<progress_q, log_q, progress_var, logged>>
  /\ PumpFrame

\* Second loop: progress_q.get_nowait() and progress_var.set(prog).
PumpProgress ==
  /\ ui_pc = "progress"
  /\ ui_pc' = "log"
  /\ progress_q' = after_drain(progress_q)
  /\ pump' = pump
  /\ progress_var' = IF progress_q # <<>> THEN Last(progress_q) ELSE progress_var
  /\ drained' = IF drained.on THEN [drained EXCEPT !.progress = progress_q] ELSE drained
  /\ UNCHANGED <<status_q, log_q, status_var, logged>>
  /\ PumpFrame

Reverse(q) == [i \in 1..Len(q) |-> q[Len(q) + 1 - i]]

\* What the log loop hands to LOGGER.info when it takes the newest item first.
drain_log_lifo(q) == Reverse(q)

\* What the log loop hands to LOGGER.info when only the newest item is shown,
\* as the status and progress loops show only their newest.
drain_log_latest(q) == IF q = <<>> THEN q ELSE <<Last(q)>>

\* What the log loop hands to LOGGER.info: get_nowait takes the oldest item.
drain_log(q) == q

\* Third loop: log_q.get_nowait() and LOGGER.info(log) until queue.Empty;
\* the finally clause then schedules the next pass.
PumpLog ==
  /\ ui_pc = "log"
  /\ ui_pc' = "idle"
  /\ log_q' = after_drain(log_q)
  /\ pump' = [pump EXCEPT !.scheduled = after_pass(FALSE)]
  /\ logged' = logged \o drain_log(log_q)
  /\ drained' = IF drained.on THEN [drained EXCEPT !.log = log_q] ELSE drained
  /\ UNCHANGED <<status_q, progress_q, status_var, progress_var>>
  /\ PumpFrame

Pump == PumpStatus \/ PumpProgress \/ PumpLog

\* A pass whose status loop raises: the items up to the i-th are taken,
\* status_var.set has shown those before it and raises on the i-th; the
\* other loops are skipped and the finally clause runs.
PumpStatusRaises ==
  /\ ui_pc = "idle" /\ pump.scheduled
  /\ pump.raised < MaxRaises
  /\ \E i \in 1..Len(status_q) :
       /\ status_q' = SubSeq(status_q, i + 1, Len(status_q))
       /\ status_var' = IF i > 1 THEN status_q[i - 1] ELSE status_var
  /\ pump' = [scheduled |-> after_pass(TRUE), raised |-> pump.raised + 1]
  /\ UNCHANGED <<ui_pc, progress_q, log_q, progress_var, logged, drained>>
  /\ PumpFrame

\* A pass whose progress loop raises on the i-th item it takes.
PumpProgressRaises ==
  /\ ui_pc = "progress"
  /\ pump.raised < MaxRaises
  /\ \E i \in 1..Len(progress_q) :
       /\ progress_q' = SubSeq(progress_q, i + 1, Len(progress_q))
       /\ progress_var' = IF i > 1 THEN progress_q[i - 1] ELSE progress_var
  /\ ui_pc' = "idle"
  /\ pump' = [scheduled |-> after_pass(TRUE), raised |-> pump.raised + 1]
  /\ UNCHANGED <<status_q, log_q, status_var, logged, drained>>
  /\ PumpFrame

\* A pass whose log loop raises: LOGGER.info has taken the items before the
\* i-th and raises on it.
PumpLogRaises ==
  /\ ui_pc = "log"
  /\ pump.raised < MaxRaises
  /\ \E i \in 1..Len(log_q) :
       /\ log_q' = SubSeq(log_q, i + 1, Len(log_q))
       /\ logged' = logged \o SubSeq(log_q, 1, i - 1)
  /\ ui_pc' = "idle"
  /\ pump' = [scheduled |-> after_pass(TRUE), raised |-> pump.raised + 1]
  /\ UNCHANGED <<status_q, progress_q, status_var, progress_var, drained>>
  /\ PumpFrame

PumpOrRaises ==
  \/ PumpStatus \/ PumpProgress \/ PumpLog
  \/ PumpStatusRaises \/ PumpProgressRaises \/ PumpLogRaises

\* A handler the user triggers, within the bound on operations.
UserOp(h) == ops < budget.ops /\ h

Next ==
  \/ \E t \in 1..Len(threads) : RefreshWork(t)
  \/ \E t \in 1..Len(threads) : Popen(t)
  \/ \E t \in 1..Len(threads) : PullLine(t)
  \/ \E t \in 1..Len(threads) : PullCbLog(t)
  \/ \E t \in 1..Len(threads) : CreateLine(t)
  \/ \E t \in 1..Len(threads) : CreateCbProgress(t)
  \/ \E t \in 1..Len(threads) : StreamEnd(t)
  \/ \E t \in 1..Len(threads) : AfterRefresh(t)
  \/ \E t \in 1..Len(threads) : StatusReady(t)
  \/ \E t \in 1..Len(threads) : ProgressFinal(t)
  \/ \E t \in 1..Len(threads) : CopyShowModelfile(t)
  \/ \E t \in 1..Len(threads) : CopyMsgbox(t)
  \/ UserOp(refresh_models)
  \/ RunAfterCallback
  \/ UserOp(_pull_registry)
  \/ UserOp(_hf_create_model)
  \/ UserOp(copy_selected)
  \/ UserOp(export_modelfile_selected)
  \/ UserOp(_detect_ollama)
  \/ PumpStatus
  \/ PumpProgress
  \/ PumpLog

Spec == Init /\ [][Next]_vars

\* ------------------------------------------ streaming specifications
\* The application at rest after start-up: the first refresh has listed the
\* models, its update callback has filled the tree, and a pump pass has run.
InitAtRest ==
  /\ binary_path \in BinaryPaths
  /\ status_q = <<>> /\ progress_q = <<>> /\ log_q = <<>>
  /\ \E models \in list_models :
       /\ tree = update_rows(<<>>, models)
       /\ status_var = <<"Found", Len(models)>>
       /\ progress_var = IF models # <<>> THEN 100 ELSE 0
       /\ listed = {models}
  /\ logged = <<>>
  /\ after_q = <<>>
  /\ threads = <<NewThread("refresh", "done")>>
  /\ ui_pc = "idle"
  /\ ops = 0
  /\ lines_out = 0
  /\ pushed_log = <<>>
  /\ bg_ui_calls = {<<"refresh", "root.after">>}
  /\ spawns = IF binary_path = None THEN {}
              ELSE {<<"ui", "_startup_checks">>, <<"bg", "list_models">>}

\* The threads of the pull and create flows.
ProgressThreads ==
  \/ \E t \in 1..Len(threads) : Popen(t)
  \/ \E t \in 1..Len(threads) : PullLine(t)
  \/ \E t \in 1..Len(threads) : PullCbLog(t)
  \/ \E t \in 1..Len(threads) : CreateLine(t)
  \/ \E t \in 1..Len(threads) : CreateCbProgress(t)
  \/ \E t \in 1..Len(threads) : StreamEnd(t)
  \/ \E t \in 1..Len(threads) : AfterRefresh(t)
  \/ \E t \in 1..Len(threads) : StatusReady(t)
  \/ \E t \in 1..Len(threads) : ProgressFinal(t)

\* The pull and create flows with the event loop busy elsewhere: the queues
\* only fill.
NextProgress ==
  \/ ProgressThreads
  \/ UserOp(_pull_registry)
  \/ UserOp(_hf_create_model)

InitProgress ==
  /\ InitAtRest
  /\ budget = [ops |-> MaxOps, lines |-> MaxLines]
  /\ obs = ObsOff
  /\ cli = CliOff
  /\ drained = DrainedOff
  /\ basic = BasicOff
  /\ pump = PumpScheduled

SpecProgress == InitProgress /\ [][NextProgress]_vars

\* The threads of the pull, create and copy flows.
StreamThreads ==
  \/ ProgressThreads
  \/ \E t \in 1..Len(threads) : CopyShowModelfile(t)
  \/ \E t \in 1..Len(threads) : CopyMsgbox(t)

\* The streaming operations, their threads and the pump. The callbacks the
\* threads schedule with after(0, ...) stay pending.
NextPumped ==
  \/ StreamThreads
  \/ UserOp(_pull_registry)
  \/ UserOp(_hf_create_model)
  \/ UserOp(copy_selected)
  \/ PumpStatus
  \/ PumpProgress
  \/ PumpLog

InitPumped ==
  /\ InitAtRest
  /\ binary_path # None /\ tree # <<>>
  /\ budget = [ops |-> MaxPumpedOps, lines |-> MaxPumpedLines]
  /\ obs = ObsOff
  /\ cli = CliOff
  /\ drained = DrainedOff
  /\ basic = BasicOff
  /\ pump = PumpScheduled

SpecPumped == InitPumped /\ [][NextPumped]_vars

\* The pump reschedules itself at the end of every pass and the Tk main loop
\* runs it: the pump keeps taking steps, whatever the threads do.
SpecPumpFair == InitPumped /\ [][NextPumped]_vars /\ WF_vars(Pump)

InitLive ==
  /\ InitAtRest
  /\ binary_path # None /\ tree # <<>>
  /\ budget = [ops |-> MaxLiveOps, lines |-> MaxLiveLines]
  /\ obs = ObsOff
  /\ cli = CliOff
  /\ drained = DrainedOff
  /\ basic = BasicOff
  /\ pump = PumpScheduled

\* The threads are scheduled and the binary's output ends; nothing is assumed
\* of the pump, which may run late or never.
SpecWorkersFair == InitLive /\ [][NextPumped]_vars /\ WF_vars(StreamThreads)

\* One streaming operation at a time beside the pump, with no assumption on
\* the scheduling.
SpecLive == InitLive /\ [][NextPumped]_vars

\* The streaming operations and a pump whose passes may raise.
NextFaulty ==
  \/ StreamThreads
  \/ UserOp(_pull_registry)
  \/ UserOp(_hf_create_model)
  \/ UserOp(copy_selected)
  \/ PumpStatus
  \/ PumpProgress
  \/ PumpLog
  \/ PumpStatusRaises
  \/ PumpProgressRaises
  \/ PumpLogRaises

\* The Tk main loop runs the pump whenever it is scheduled.
SpecFaultyPump == InitLive /\ [][NextFaulty]_vars /\ WF_vars(PumpOrRaises)

\* The streaming operations and the pump with the passes recorded.
InitDrain ==
  /\ InitAtRest
  /\ binary_path # None /\ tree # <<>>
  /\ budget = [ops |-> MaxPumpedOps, lines |-> MaxPumpedLines]
  /\ obs = ObsOff
  /\ cli = CliOff
  /\ drained = DrainedNone
  /\ basic = BasicOff
  /\ pump = PumpScheduled

SpecDrain == InitDrain /\ [][NextPumped]_vars

\* The same with the producers at rest while a pass is under way: the
\* threads and the handlers take their steps between the passes only.
NextQuietPass ==
  \/ ui_pc = "idle" /\ StreamThreads
  \/ ui_pc = "idle" /\ UserOp(_pull_registry)
  \/ ui_pc = "idle" /\ UserOp(_hf_create_model)
  \/ ui_pc = "idle" /\ UserOp(copy_selected)
  \/ PumpStatus
  \/ PumpProgress
  \/ PumpLog

SpecQuietPass == InitDrain /\ [][NextQuietPass]_vars

\* ------------------------------------------- removal specification
\* The names `ollama list` reports, in its order.
InstalledNames == <<"llama3:8b", "mistral:7b", "phi3:mini", "gemma:2b", "qwen2:7b">>

InstalledLists ==
  {SubSeq(InstalledNames, 1, n) : n \in {k \in 1..MaxRows : k <= Len(InstalledNames)}}

\* The application at rest with the installed models listed in the tree.
InitRemove ==
  /\ binary_path \in BinaryPaths \ {None}
  /\ status_q = <<>> /\ progress_q = <<>> /\ log_q = <<>>
  /\ \E models \in InstalledLists :
       /\ tree = update_rows(<<>>, models)
       /\ status_var = <<"Found", Len(models)>>
       /\ progress_var = 100
       /\ listed = {models}
  /\ logged = <<>>
  /\ after_q = <<>>
  /\ threads = <<NewThread("refresh", "done")>>
  /\ ui_pc = "idle"
  /\ ops = 0
  /\ lines_out = 0
  /\ pushed_log = <<>>
  /\ bg_ui_calls = {<<"refresh", "root.after">>}
  /\ spawns = {<<"ui", "_startup_checks">>, <<"bg", "list_models">>}
  /\ budget = [ops |-> MaxRemoveOps, lines |-> MaxRemoveLines]
  /\ obs = ObsOff
  /\ cli = CliOff
  /\ drained = DrainedOff
  /\ basic = BasicOff
  /\ pump = PumpScheduled

\* The remove and copy flows with the event loop busy elsewhere: the queues
\* and the scheduled callbacks only pile up.
NextRemove ==
  \/ \E t \in 1..Len(threads) : RemoveModel(t)
  \/ \E t \in 1..Len(threads) : RemoveLog(t)
  \/ \E t \in 1..Len(threads) : RemoveProgress(t)
  \/ \E t \in 1..Len(threads) : CopyShowModelfile(t)
  \/ \E t \in 1..Len(threads) : CopyMsgbox(t)
  \/ \E t \in 1..Len(threads) : Popen(t)
  \/ \E t \in 1..Len(threads) : CreateLine(t)
  \/ \E t \in 1..Len(threads) : StreamEnd(t)
  \/ \E t \in 1..Len(threads) : AfterRefresh(t)
  \/ UserOp(remove_selected)
  \/ UserOp(copy_selected)

SpecRemove == InitRemove /\ [][NextRemove]_vars

\* ------------------------------------------ extraction specification
RunningMaxes == {0, 40, 57, 100}

\* One step of pull_model's loop body on its own: any line of the alphabet
\* and a running maximum.
InitExtract ==
  /\ InitAtRest
  /\ binary_path # None /\ tree # <<>>
  /\ budget = [ops |-> 0, lines |-> 0]
  /\ obs \in [phase : {"in"}, line : Lines, runningMax : RunningMaxes, newMax : {0}]
  /\ cli = CliOff
  /\ drained = DrainedOff
  /\ basic = BasicOff
  /\ pump = PumpScheduled

\* last_percent after the loop body has seen obs.line.
Observe ==
  /\ obs.phase = "in"
  /\ obs' = [obs EXCEPT !.phase = "out",
                        !.newMax = pull_last_percent(obs.runningMax, obs.line)]
  /\ UNCHANGED <<binary_path, status_q, progress_q, log_q, status_var, progress_var,
                 tree, logged, after_q, threads, ui_pc, ops, lines_out, pushed_log,
                 bg_ui_calls, spawns, listed, budget, cli, drained, basic, pump>>

NextExtract == Observe

SpecExtract == InitExtract /\ [][NextExtract]_vars

\* ------------------------------------------------- OllamaCLI calls
\* The operations that run the binary to completion with subprocess.run.
TerminalOps ==
  {"ensure_available", "remove_model", "show_modelfile", "show_parameters", "stop_model"}

\* The operations that read the binary's output line by line from a Popen.
StreamingOps == {"pull_model", "create_model_from_modelfile", "run_model_once", "prune"}

\* The operations that return an (ok, message) pair.
OutcomeOps == TerminalOps \cup StreamingOps

\* OllamaModelManager.run_command of the basic manager, as called by
\* _delete_model_thread.
BasicOps == {"run_command"}

\* OllamaModelManager._refresh_models_thread of the basic manager, which runs
\* `ollama list` through run_command and parses the text itself.
BasicListOps == {"_refresh_models_thread"}

CliOps == OutcomeOps \cup {"list_models"} \cup BasicOps \cup BasicListOps

\* The callback a streaming operation is given: none, one that returns, or
\* one that can raise (test_selected's on_stream calls win.after, which
\* raises once the window is gone).
Callbacks == {"none", "returns", "raises"}

CallbacksOf(op) ==
  IF op \in {"pull_model", "create_model_from_modelfile", "run_model_once"}
  THEN Callbacks ELSE {"none"}

\* str(e) of the exceptions the operations catch.
NotFoundText == <<"Ollama binary not found. Install from https://ollama.com/download">>
TypeErrorText == <<"expected str, bytes or os.PathLike object, not NoneType">>
FileNotFoundText == <<"[Errno 2] No such file or directory: 'ollama'">>
PermissionText == <<"[Errno 13] Permission denied: 'ollama'">>
TimeoutText == <<"Command timed out after N seconds">>
CallbackErrorText == <<"invalid command name">>
TempfileErrorText == <<"[Errno 28] No space left on device">>
WriteErrorText == <<"'utf-8' codec can't encode character: surrogates not allowed">>

ExcText(fault) ==
  CASE fault = "TypeError" -> TypeErrorText
    [] fault = "FileNotFoundError" -> FileNotFoundText
    [] fault = "PermissionError" -> PermissionText

\* How the spawn inside subprocess.run / Popen / check_output can fail. With
\* binary_path None the argument vector starts with None and the call raises
\* TypeError before any process exists; a resolved path can have vanished or
\* lost its permissions. The basic manager runs "ollama" from PATH.
SpawnFaults(op, binary) ==
  IF binary = None
  THEN IF op \in BasicOps \cup BasicListOps THEN {"FileNotFoundError"} ELSE {"TypeError"}
  ELSE {"none", "FileNotFoundError", "PermissionError"}

\* What the binary can write to the captured stream a branch reads: nothing,
\* blank text, a message, and the very text of a timeout.
StdTexts == { <<>>, <<"\n">>, <<"text", "\n">>, TimeoutText }

Blank == Whitespace \cup {"\n"}

RECURSIVE lstrip(_)
lstrip(text) ==
  IF text # <<>> /\ Head(text) \in Blank THEN lstrip(Tail(text)) ELSE text

RECURSIVE rstrip(_)
rstrip(text) ==
  IF text # <<>> /\ text[Len(text)] \in Blank
  THEN rstrip(SubSeq(text, 1, Len(text) - 1)) ELSE text

\* str.strip().
strip(text) == lstrip(rstrip(text))

\* Python's `text or default` on strings.
Or(text, default) == IF text = <<>> THEN default ELSE text

\* res.returncode == 0 read as success whatever the code.
exit_ok_any(code) == TRUE

\* res.returncode == 0, code == 0.
exit_ok(code) == code = 0

\* The message a terminal operation returns for an exit code and the text of
\* the stream it reads: stdout when the code is 0 and stderr otherwise.
TerminalMsg(op, code, text) ==
  CASE op = "ensure_available" ->
         IF exit_ok(code) THEN strip(Or(text, <<>>))
         ELSE strip(Or(text, <<"Cannot execute ollama">>))
    [] op = "remove_model" ->
         IF exit_ok(code) THEN strip(Or(text, <<"Removed">>))
         ELSE strip(Or(text, <<"Failed to remove">>))
    [] op = "stop_model" ->
         IF exit_ok(code) THEN strip(Or(text, <<"Stopped">>))
         ELSE strip(Or(text, <<"Failed to stop">>))
    [] op \in {"show_modelfile", "show_parameters"} -> text

\* The lines a streaming process prints, each with its line end.
CliLines == { <<"line one", "\n">>, <<"line two", "\n">> }

\* "".join(lines).
RECURSIVE join(_)
join(lines) == IF lines = <<>> THEN <<>> ELSE Head(lines) \o join(Tail(lines))

\* The message a streaming operation returns after proc.wait().
StreamingMsg(op, code, captured) ==
  CASE op = "pull_model" -> FinalMsg("pull", code)
    [] op = "create_model_from_modelfile" -> FinalMsg("create", code)
    [] op \in {"run_model_once", "prune"} -> join(captured)

\* The process after subprocess.run has timed out, had run leave it alone.
run_timeout_proc_left == "running"

\* The process after subprocess.run has timed out: run kills it and waits
\* for it before it raises TimeoutExpired.
run_timeout_proc == "killed"

\* The Popen's stdout when a streaming operation returns: the code never
\* closes it; the Popen object is dropped with the frame.
pipe_at_return == "closed"

\* ---- the listing
\* The characters of a model name.
NameAlphabet == {"m", ":", "q", "Q", "4", "-"}

DecimalDigits == {"0", "1", "2", "3", "4", "5", "6", "7", "8", "9"}

llama3_8b == <<"l", "l", "a", "m", "a", "3", ":", "8", "b">>
mistral_7b_q4_0 == <<"m", "i", "s", "t", "r", "a", "l", ":", "7", "b", "-", "q", "4", "_", "0">>

\* Every name of at most MaxNameLen characters, and the two of the examples.
Names == SeqsUpTo(NameAlphabet, MaxNameLen) \cup {llama3_8b, mistral_7b_q4_0}

\* The position of the first ':' of the name, 0 when it has none.
FirstColon(name) ==
  IF \E i \in 1..Len(name) : name[i] = ":"
  THEN CHOOSE i \in 1..Len(name) : name[i] = ":" /\ \A j \in 1..(i - 1) : name[j] # ":"
  ELSE 0

\* name.split(":")[0] split at the last ':' instead.
family_of_rsplit(name) ==
  IF \E i \in 1..Len(name) : name[i] = ":"
  THEN SubSeq(name, 1,
              (CHOOSE i \in 1..Len(name) :
                 name[i] = ":" /\ \A j \in (i + 1)..Len(name) : name[j] # ":") - 1)
  ELSE name

\* family = name.split(":")[0] if ":" in name else name.
family_of(name) ==
  IF FirstColon(name) # 0 THEN SubSeq(name, 1, FirstColon(name) - 1) ELSE name

\* re.search(r"q\d[^-]*", variant, flags=re.IGNORECASE): the leftmost q or Q
\* that a digit follows, with everything after it up to the next '-'.
quant_search(variant) ==
  LET starts == {i \in 1..(Len(variant) - 1) :
                   variant[i] \in {"q", "Q"} /\ variant[i + 1] \in DecimalDigits}
  IN  IF starts = {} THEN <<>>
      ELSE LET i == CHOOSE a \in starts : \A b \in starts : a <= b
               stops == {j \in (i + 2)..Len(variant) : variant[j] = "-"}
               e == IF stops = {} THEN Len(variant)
                    ELSE (CHOOSE a \in stops : \A b \in stops : a <= b) - 1
           IN  SubSeq(variant, i, e)

\* quant: "" without a ':', else the match in name.split(":", 1)[1].
quant_of(name) ==
  IF FirstColon(name) = 0 THEN <<>>
  ELSE quant_search(SubSeq(name, FirstColon(name) + 1, Len(name)))

\* An entry of the decoded structured listing: a dict with its name, size,
\* modified and digest, or a value that is no dict.
EntryOf(name) ==
  [dict |-> TRUE, name |-> name, size |-> "4.7 GB", modified |-> <<"2", "days", "ago">>,
   id |-> "abc123"]

JunkEntry ==
  [dict |-> FALSE, name |-> <<>>, size |-> "", modified |-> <<>>, id |-> ""]

\* The names of the listings of more than one entry.
ListNames == {llama3_8b, mistral_7b_q4_0}

\* What json.loads gives for the entries: one entry of any name, or up to
\* MaxEntries entries of the names of the examples and values that are no dict.
JsonLists ==
  {<<EntryOf(n)>> : n \in Names}
    \cup SeqsUpTo({EntryOf(n) : n \in ListNames} \cup {JunkEntry}, MaxEntries)

\* The outcome of `ollama list --format json`: the run raises (spawn failure,
\* timeout, or a non-zero exit under check=True), prints nothing, prints
\* text json.loads rejects, or prints a list.
JsonOutcomes ==
  {[kind |-> k, items |-> <<>>] : k \in {"raises", "empty", "invalid"}}
    \cup {[kind |-> "list", items |-> items] : items \in JsonLists}

\* The record the structured path appends for an entry.
record_json(item) ==
  [name |-> item.name, size |-> item.size, modified |-> item.modified, id |-> item.id,
   family |-> family_of(item.name), quant |-> quant_of(item.name)]

\* The entries the loop appends when it passes over an entry without a name.
RECURSIVE DictPrefix_named(_)
DictPrefix_named(items) ==
  IF items = <<>> \/ ~Head(items).dict THEN <<>>
  ELSE (IF Head(items).name = <<>> THEN <<>> ELSE <<Head(items)>>)
         \o DictPrefix_named(Tail(items))

\* The entries before the first that is no dict: those the loop has appended
\* when item.get raises, and all of them when none does.
RECURSIVE DictPrefix(_)
DictPrefix(items) ==
  IF items = <<>> \/ ~Head(items).dict THEN <<>>
  ELSE <<Head(items)>> \o DictPrefix(Tail(items))

\* models after the loop has appended the record of each of the items.
records_json(items) == [i \in 1..Len(items) |-> record_json(items[i])]

\* The lines of `ollama list`, each split on whitespace into its tokens; a
\* blank line has none. The header, the line the binary prints today, the
\* line of the listing example, a line of four tokens and one of three.
HeaderLine == << <<"N", "A", "M", "E">>, "ID", "SIZE", "MODIFIED" >>

DataLine(name) == <<name, "abc123", "4.7", "GB", "2", "days", "ago">>

ExampleLine(name) == <<name, "abc123", "4.7GB", "2", "days", "ago">>

FourLine(name) == <<name, "4.7GB", "2024-05-01", "10:00">>

ShortLine(name) == <<name, "abc123", "4.7GB">>

BlankLine == <<>>

\* The lines after the header.
BodyLines ==
  {DataLine(n) : n \in ListNames} \cup {ExampleLine(n) : n \in ListNames}
    \cup {FourLine(n) : n \in ListNames} \cup {ShortLine(llama3_8b), BlankLine}

\* The output of `ollama list`: nothing, blank lines only, or a header, with
\* or without a blank line before it, and the lines after it.
TextLists ==
  { <<>>, <<BlankLine>> }
    \cup {<<HeaderLine, DataLine(n)>> : n \in Names}
    \cup {lead \o <<HeaderLine>> \o ls :
            lead \in {<<>>, <<BlankLine>>}, ls \in SeqsUpTo(BodyLines, MaxEntries)}

\* The outcome of `ollama list`: the run raises, or prints lines.
TextOutcomes ==
  {[kind |-> "raises", lines |-> <<>>]}
    \cup {[kind |-> "lines", lines |-> ls] : ls \in TextLists}

\* The record the fallback path appends for a data line of four parts or more.
record_text(parts) ==
  [name |-> parts[1], size |-> parts[2], modified |-> SubSeq(parts, 3, Len(parts)),
   id |-> "", family |-> family_of(parts[1]), quant |-> quant_of(parts[1])]

\* The records the fallback loop appends for the lines.
records_text(lines) == [i \in 1..Len(lines) |-> record_text(lines[i])]

\* [ln for ln in (res.stdout or "").splitlines() if ln.strip()].
RECURSIVE NonBlankLines(_)
NonBlankLines(lines) ==
  IF lines = <<>> THEN <<>>
  ELSE IF Head(lines) = BlankLine THEN NonBlankLines(Tail(lines))
  ELSE <<Head(lines)>> \o NonBlankLines(Tail(lines))

\* The loop over the data lines, had it stopped at the first short line.
RECURSIVE SelectLines_until_short(_)
SelectLines_until_short(lines) ==
  IF lines = <<>> \/ Len(Head(lines)) < 4 THEN <<>>
  ELSE <<Head(lines)>> \o SelectLines_until_short(Tail(lines))

\* The lines the loop keeps: `if len(parts) < 4: continue`.
RECURSIVE SelectLines(_)
SelectLines(lines) ==
  IF lines = <<>> THEN <<>>
  ELSE IF Len(Head(lines)) < 4 THEN SelectLines(Tail(lines))
  ELSE <<Head(lines)>> \o SelectLines(Tail(lines))

\* The fallback path: what list_models returns when it gets there with
\* `models` holding what the structured path has appended.
fallback(models, out) ==
  LET lines == NonBlankLines(out.lines)
  IN  IF out.kind = "raises" \/ Len(lines) <= 1 THEN models
      ELSE models \o records_text(SelectLines(Tail(lines)))

\* ---- the listing of the basic manager
\* output.strip().split("\n"): blank lines at either end are gone, and the
\* text that is left when there is nothing else is one empty line.
RECURSIVE DropLeadingBlank(_)
DropLeadingBlank(lines) ==
  IF lines # <<>> /\ Head(lines) = BlankLine THEN DropLeadingBlank(Tail(lines))
  ELSE lines

RECURSIVE DropTrailingBlank(_)
DropTrailingBlank(lines) ==
  IF lines # <<>> /\ lines[Len(lines)] = BlankLine
  THEN DropTrailingBlank(SubSeq(lines, 1, Len(lines) - 1))
  ELSE lines

strip_split(lines) ==
  LET kept == DropLeadingBlank(DropTrailingBlank(lines))
  IN  IF kept = <<>> THEN <<BlankLine>> ELSE kept

\* The entry _refresh_models_thread makes for a line of five tokens or more:
\* the last two are the modification time, then the size and the blob from
\* the right, and the name is the tokens before them joined by a space.
basic_record(parts) ==
  LET n == Len(parts)
  IN  [name |-> SubSeq(parts, 1, n - 4), blob |-> parts[n - 3], size |-> parts[n - 2],
       modified |-> <<parts[n - 1], parts[n]>>,
       full_name |-> <<SubSeq(parts, 1, n - 4), parts[n - 3]>>]

\* The lines its loop keeps: `if not line: continue` and
\* `if len(parts) < 5: continue`.
RECURSIVE BasicSelectLines(_)
BasicSelectLines(lines) ==
  IF lines = <<>> THEN <<>>
  ELSE IF Len(Head(lines)) < 5 THEN BasicSelectLines(Tail(lines))
  ELSE <<Head(lines)>> \o BasicSelectLines(Tail(lines))

\* tree_items for the output of `ollama list`.
basic_tree_items(out) ==
  LET lines == strip_split(out)
      kept == BasicSelectLines(Tail(lines))
  IN  [i \in 1..Len(kept) |-> basic_record(kept[i])]

\* ---- the search for the binary
\* sys.platform: win32, darwin, and everything else.
Platforms == {"win32", "darwin", "linux"}

\* The guess list of _find_ollama for the platform, in its order.
guesses(platform) ==
  CASE platform = "win32" ->
         << "%LocalAppData%/Programs/Ollama/ollama.exe",
            "%ProgramFiles%/Ollama/ollama.exe",
            "~/Ollama/ollama.exe" >>
    [] platform = "darwin" ->
         << "/Applications/Ollama.app/Contents/MacOS/ollama",
            "/opt/homebrew/bin/ollama",
            "/usr/local/bin/ollama" >>
    [] OTHER ->
         << "/usr/local/bin/ollama", "/usr/bin/ollama", "~/.local/bin/ollama" >>

\* Every path some guess list names.
GuessPaths == UNION {{guesses(p)[i] : i \in 1..Len(guesses(p))} : p \in Platforms}

\* What shutil.which(cmd) can give: None, or the path of the executable
\* found on the search path, which may or may not be one of the guesses.
WhichResults == {None, "/opt/ollama/bin/ollama", "/usr/bin/ollama"}

\* The loop over the guesses, had it kept the last one that exists.
LastExisting(gs, exists) ==
  LET idx == {i \in 1..Len(gs) : gs[i] \in exists}
  IN  IF idx = {} THEN None ELSE gs[CHOOSE a \in idx : \A b \in idx : a >= b]

\* for g in guesses: if g.exists(): return str(g); then return None.
FirstExisting(gs, exists) ==
  LET idx == {i \in 1..Len(gs) : gs[i] \in exists}
  IN  IF idx = {} THEN None ELSE gs[CHOOSE a \in idx : \A b \in idx : a <= b]

\* OllamaCLI._find_ollama on a platform, with what shutil.which gives and
\* the set of paths that exist on disk.
_find_ollama(platform, which, exists) ==
  IF which # None THEN which ELSE FirstExisting(guesses(platform), exists)

NoJson == [kind |-> "none", items |-> <<>>]
NoText == [kind |-> "none", lines |-> <<>>]

\* A call at its entry.
NewCall(op, binary, cb) ==
  [pc |-> "call", op |-> op, binary |-> binary, cb |-> cb, attempts |-> 0,
   created |-> 0, proc |-> "none", pipe |-> "none", cause |-> "none", code |-> -1,
   ok |-> FALSE, msg |-> <<>>, std |-> <<>>, captured |-> <<>>, delivered |-> <<>>,
   eof |-> FALSE, tmpfile |-> "none", json |-> NoJson, text |-> NoText,
   models |-> <<>>, platform |-> "linux", which |-> None, exists |-> {},
   result |-> None]

CliFrame ==
  UNCHANGED <<binary_path, status_q, progress_q, log_q, status_var, progress_var,
              tree, logged, after_q, threads, ui_pc, ops, lines_out, pushed_log,
              bg_ui_calls, spawns, listed, budget, obs, drained, basic, pump>>

\* return ok, msg.
Return(ok, msg, cause) ==
  [cli EXCEPT !.pc = "returned", !.ok = ok, !.msg = msg, !.cause = cause]

\* ensure_available without a binary path: the guard returns at once.
EnsureNotFound ==
  /\ cli.pc = "call" /\ cli.op = "ensure_available" /\ cli.binary = None
  /\ cli' = Return(FALSE, NotFoundText, "not_found")
  /\ CliFrame

\* The operations that reach subprocess.run: all but a guarded one.
ReachesRun ==
  /\ cli.pc = "call" /\ cli.op \in TerminalOps
  /\ ~(cli.op = "ensure_available" /\ cli.binary = None)

\* subprocess.run raises before the process exists; except Exception returns
\* (False, str(e)).
TerminalSpawnFails ==
  /\ ReachesRun
  /\ \E fault \in SpawnFaults(cli.op, cli.binary) \ {"none"} :
       cli' = [Return(FALSE, ExcText(fault), "spawn_failure") EXCEPT
                 !.attempts = @ + 1]
  /\ CliFrame

\* The process outlives the timeout: TimeoutExpired is caught like the rest.
TerminalTimesOut ==
  /\ ReachesRun /\ "none" \in SpawnFaults(cli.op, cli.binary)
  /\ cli' = [Return(FALSE, TimeoutText, "timeout") EXCEPT
               !.attempts = @ + 1, !.created = @ + 1,
               !.proc = run_timeout_proc, !.pipe = "closed"]
  /\ CliFrame

\* The process exits: res.returncode decides the outcome.
TerminalExits ==
  /\ ReachesRun /\ "none" \in SpawnFaults(cli.op, cli.binary)
  /\ \E code \in Codes, text \in StdTexts :
       cli' = [Return(exit_ok(code), TerminalMsg(cli.op, code, text), "exit") EXCEPT
                 !.attempts = @ + 1, !.created = @ + 1, !.code = code,
                 !.std = text, !.proc = "reaped", !.pipe = "closed"]
  /\ CliFrame

\* What the first three lines of create_model_from_modelfile's try can do:
\* NamedTemporaryFile raises and there is no file; f.write raises, on text
\* the encoding rejects or a full disk, after the file has been made; or the
\* text is written and the file closed.
ModelfileWrites == {"no_file", "write_raises", "written"}

\* os.unlink(mf_path) in the finally clause, on a file just written.
unlink(tmpfile) == IF tmpfile = "exists" THEN "removed" ELSE tmpfile

\* create_model_from_modelfile up to its inner try. An exception here is
\* outside the inner try/finally: it goes to the outer except, which returns
\* (False, str(e)) and unlinks nothing.
CreateWritesModelfile ==
  /\ cli.pc = "call" /\ cli.op = "create_model_from_modelfile"
  /\ \E w \in ModelfileWrites :
       cli' = CASE w = "no_file" ->
                     Return(FALSE, TempfileErrorText, "tempfile_failure")
                [] w = "write_raises" ->
                     [Return(FALSE, WriteErrorText, "write_failure") EXCEPT
                        !.tmpfile = "exists"]
                [] w = "written" ->
                     [cli EXCEPT !.pc = "written", !.tmpfile = "exists"]
  /\ CliFrame

\* subprocess.Popen of a streaming operation; create_model_from_modelfile
\* gets here with its file written, and its finally clause unlinks the file
\* on the way out.
StreamPopen ==
  /\ cli.op \in StreamingOps
  /\ cli.pc = IF cli.op = "create_model_from_modelfile" THEN "written" ELSE "call"
  /\ \E fault \in SpawnFaults(cli.op, cli.binary) :
       IF fault = "none"
       THEN cli' = [cli EXCEPT !.pc = "reading", !.attempts = @ + 1, !.created = @ + 1,
                               !.proc = "running", !.pipe = "open"]
       ELSE cli' = [Return(FALSE, ExcText(fault), "spawn_failure") EXCEPT
                      !.attempts = @ + 1, !.tmpfile = unlink(@)]
  /\ CliFrame

\* One iteration of `for line in proc.stdout` whose callback, if any, returns:
\* captured is the lines read so far and delivered those a callback was given.
StreamLine ==
  /\ cli.pc = "reading" /\ Len(cli.captured) < MaxCliLines
  /\ \E line \in CliLines :
       cli' = [cli EXCEPT !.captured = Append(@, line),
                          !.delivered = IF cli.cb = "none" THEN @ ELSE Append(@, line)]
  /\ CliFrame

\* One iteration whose callback raises: the exception leaves the loop and
\* reaches except Exception, which returns (False, str(e)); proc.wait() is
\* skipped and nothing terminates the process.
StreamCallbackRaises ==
  /\ cli.pc = "reading" /\ cli.cb = "raises" /\ Len(cli.captured) < MaxCliLines
  /\ \E line \in CliLines :
       cli' = [Return(FALSE, CallbackErrorText, "callback") EXCEPT
                 !.captured = Append(@, line), !.delivered = Append(@, line),
                 !.pipe = pipe_at_return, !.tmpfile = unlink(@)]
  /\ CliFrame

\* End of the output: code = proc.wait() and the return.
StreamEof ==
  /\ cli.pc = "reading"
  /\ \E code \in Codes :
       cli' = [Return(exit_ok(code), StreamingMsg(cli.op, code, cli.captured), "exit")
                 EXCEPT !.code = code, !.eof = TRUE, !.proc = "reaped",
                        !.pipe = pipe_at_return, !.tmpfile = unlink(@)]
  /\ CliFrame

\* run_command of the basic manager: subprocess.check_output, with only
\* CalledProcessError caught. A failure to spawn is no CalledProcessError:
\* it leaves run_command and _delete_model_thread, which catches nothing.
BasicRunCommand ==
  /\ cli.pc = "call" /\ cli.op \in BasicOps
  /\ \E fault \in SpawnFaults(cli.op, cli.binary) :
       IF fault = "none"
       THEN \E code \in Codes, text \in StdTexts :
              cli' = [cli EXCEPT !.pc = "returned", !.attempts = @ + 1,
                                 !.created = @ + 1, !.code = code, !.cause = "exit",
                                 !.proc = "reaped", !.pipe = "closed", !.msg = text]
       ELSE cli' = [cli EXCEPT !.pc = "raised", !.attempts = @ + 1,
                               !.cause = "spawn_failure", !.msg = ExcText(fault)]
  /\ CliFrame

\* _refresh_models_thread of the basic manager up to its root.after: the
\* run of `ollama list`, whose failure to spawn the try turns into the text
\* "Error: ...", and the loop over the lines after the first.
BasicRefresh ==
  /\ cli.pc = "call" /\ cli.op \in BasicListOps
  /\ \E fault \in SpawnFaults(cli.op, cli.binary) :
       IF fault = "none"
       THEN \E out \in TextLists :
              cli' = [cli EXCEPT !.pc = "returned", !.attempts = @ + 1,
                                 !.created = @ + 1, !.cause = "exit",
                                 !.proc = "reaped", !.pipe = "closed",
                                 !.text = [kind |-> "lines", lines |-> out],
                                 !.models = basic_tree_items(out)]
       ELSE cli' = [cli EXCEPT !.pc = "returned", !.attempts = @ + 1,
                               !.cause = "spawn_failure",
                               !.text = [kind |-> "raises", lines |-> <<>>],
                               !.models = <<>>]
  /\ CliFrame

\* A call of _find_ollama: it raises nothing and returns a path or None.
FindOllama ==
  /\ cli.pc = "call" /\ cli.op = "_find_ollama"
  /\ cli' = [cli EXCEPT !.pc = "returned",
                        !.result = _find_ollama(cli.platform, cli.which, cli.exists)]
  /\ CliFrame

\* list_models without a binary path: return models, which is [].
ListNotFound ==
  /\ cli.pc = "call" /\ cli.op = "list_models" /\ cli.binary = None
  /\ cli' = [cli EXCEPT !.pc = "returned", !.cause = "not_found", !.models = <<>>]
  /\ CliFrame

\* The structured path: the run, json.loads and the loop over the entries.
\* A list of dicts is returned; anything that raises is swallowed by
\* `except Exception: pass` and leaves models as the loop has filled it.
ListJson ==
  /\ cli.pc = "call" /\ cli.op = "list_models" /\ cli.binary # None
  /\ \E out \in JsonOutcomes :
       LET appended == records_json(DictPrefix(out.items))
       IN  cli' = [cli EXCEPT
                     !.attempts = @ + 1,
                     !.json = out,
                     !.models = appended,
                     !.pc = IF out.kind = "list" /\ Len(appended) = Len(out.items)
                            THEN "returned" ELSE "fallback"]
  /\ CliFrame

\* The fallback path: the run and the loop over the data lines.
ListText ==
  /\ cli.pc = "fallback"
  /\ \E out \in TextOutcomes :
       cli' = [cli EXCEPT !.attempts = @ + 1, !.text = out, !.pc = "returned",
                          !.models = fallback(cli.models, out)]
  /\ CliFrame

NextCli ==
  \/ EnsureNotFound
  \/ TerminalSpawnFails
  \/ TerminalTimesOut
  \/ TerminalExits
  \/ CreateWritesModelfile
  \/ StreamPopen
  \/ StreamLine
  \/ StreamCallbackRaises
  \/ StreamEof
  \/ BasicRunCommand
  \/ BasicRefresh
  \/ FindOllama
  \/ ListNotFound
  \/ ListJson
  \/ ListText

\* Any one call, on an OllamaCLI with or without a binary path, or a call of
\* the static _find_ollama on any platform and disk.
InitCli ==
  /\ InitAtRest
  /\ binary_path # None /\ tree # <<>>
  /\ budget = [ops |-> 0, lines |-> 0]
  /\ obs = ObsOff
  /\ drained = DrainedOff
  /\ basic = BasicOff
  /\ pump = PumpScheduled
  /\ \/ \E op \in CliOps, binary \in BinaryPaths, cb \in Callbacks :
          cb \in CallbacksOf(op) /\ cli = NewCall(op, binary, cb)
     \/ \E platform \in Platforms, which \in WhichResults, exists \in SUBSET GuessPaths :
          cli = [NewCall("_find_ollama", None, "none") EXCEPT
                   !.platform = platform, !.which = which, !.exists = exists]

SpecCli == InitCli /\ [][NextCli]_vars

\* ------------------------------------- the basic manager's model list
\* The lines `ollama list` prints after the header: lines of seven and of
\* six tokens and a line too short to be kept.
BasicBodyLines ==
  {DataLine(llama3_8b), ExampleLine(llama3_8b), ExampleLine(mistral_7b_q4_0),
   ShortLine(llama3_8b)}

\* What _refresh_models_thread has in `output`: the text of `ollama list`,
\* or "Error: ..." when run_command raises.
BasicOutputs ==
  {[kind |-> "error", lines |-> <<>>], [kind |-> "lines", lines |-> <<>>]}
    \cup {[kind |-> "lines", lines |-> <<HeaderLine>> \o ls] :
            ls \in SeqsUpTo(BasicBodyLines, MaxEntries)}

\* tree_items of the thread for its output: the one line of an error text
\* gives none.
tree_items_of(output) ==
  IF output.kind = "error" THEN <<>> ELSE basic_tree_items(output.lines)

\* models of the thread: models[model_key] = {...} item by item, so that
\* the last item of a key is the one kept.
models_of(tree_items) ==
  [k \in {tree_items[i].full_name : i \in 1..Len(tree_items)} |->
     LET last == CHOOSE i \in 1..Len(tree_items) :
                   /\ tree_items[i].full_name = k
                   /\ \A j \in (i + 1)..Len(tree_items) : tree_items[j].full_name # k
     IN  tree_items[last]]

\* The texts of the Name column that occur, in the order of Python's
\* string comparison.
NameColumnOrder ==
  << <<llama3_8b, "abc123">>, <<llama3_8b, "abc123", "4.7">>,
     <<mistral_7b_q4_0, "abc123">> >>

name_key(row) == CHOOSE i \in 1..Len(NameColumnOrder) : NameColumnOrder[i] = row.name

\* items.sort(reverse=...) followed by the moves: the rows in the order of
\* their Name, ascending or descending.
RECURSIVE insert_row(_, _, _)
insert_row(row, rows, reverse) ==
  IF rows = <<>> THEN <<row>>
  ELSE IF (IF reverse THEN name_key(row) >= name_key(Head(rows))
           ELSE name_key(row) <= name_key(Head(rows)))
  THEN <<row>> \o rows
  ELSE <<Head(rows)>> \o insert_row(row, Tail(rows), reverse)

RECURSIVE sorted_rows(_, _)
sorted_rows(rows, reverse) ==
  IF rows = <<>> THEN <<>>
  ELSE insert_row(Head(rows), sorted_rows(Tail(rows), reverse), reverse)

\* The rows of the tree, had update_model_list kept those it found.
rows_appended(rows, tree_items) == rows \o tree_items

\* The rows update_model_list leaves before sorting: every row is deleted
\* and one row is inserted per item.
repopulated(rows, tree_items) == tree_items

\* OllamaModelManager.__init__ has run: the tree and model_data are empty
\* and refresh_models has started the first thread.
InitBasicManager ==
  basic = [on |-> TRUE, model_tree |-> <<>>, model_data |-> <<>>,
           output_box |-> [kind |-> "lines", lines |-> <<>>],
           status_var |-> "Refreshing model list...",
           sort_column |-> None, sort_reverse |-> FALSE,
           threads |-> 1, after_q |-> <<>>, ops |-> 0,
           results |-> {}, updates |-> 0, overlapped |-> FALSE]

BasicFrame ==
  UNCHANGED <<binary_path, status_q, progress_q, log_q, status_var, progress_var,
              tree, logged, after_q, threads, ui_pc, ops, lines_out, pushed_log,
              bg_ui_calls, spawns, listed, budget, obs, cli, drained, pump>>

\* The Refresh Models button, and the refresh a deletion schedules.
basic_refresh_models ==
  /\ basic.on /\ basic.ops < MaxBasicOps
  /\ basic' = [basic EXCEPT
                 !.status_var = "Refreshing model list...",
                 !.threads = @ + 1,
                 !.ops = @ + 1,
                 !.overlapped = @ \/ basic.threads + Len(basic.after_q) > 0]
  /\ BasicFrame

\* _refresh_models_thread from its start to its root.after(0, ...).
_refresh_models_thread ==
  /\ basic.on /\ basic.threads > 0
  /\ \E output \in BasicOutputs :
       LET tree_items == tree_items_of(output)
       IN  basic' = [basic EXCEPT
                       !.threads = @ - 1,
                       !.after_q = Append(@, [raw_output |-> output,
                                              models |-> models_of(tree_items),
                                              tree_items |-> tree_items]),
                       !.results = @ \cup {tree_items}]
  /\ BasicFrame

\* The event loop runs the oldest scheduled update_model_list.
update_model_list ==
  /\ basic.on /\ basic.after_q # <<>>
  /\ LET call == Head(basic.after_q)
         rows == repopulated(basic.model_tree, call.tree_items)
     IN  basic' = [basic EXCEPT
                     !.after_q = Tail(@),
                     !.output_box = call.raw_output,
                     !.model_data = call.models,
                     !.model_tree = IF basic.sort_column # None
                                    THEN sorted_rows(rows, basic.sort_reverse)
                                    ELSE rows,
                     !.status_var = IF DOMAIN call.models # {} THEN "Found models"
                                    ELSE "No models found",
                     !.updates = @ + 1]
  /\ BasicFrame

\* A click on the heading of the Name column: sort_treeview("Name").
sort_treeview ==
  /\ basic.on /\ basic.ops < MaxBasicOps
  /\ LET reverse == IF basic.sort_column = "Name" THEN ~basic.sort_reverse
                    ELSE basic.sort_reverse
     IN  basic' = [basic EXCEPT
                     !.sort_column = "Name",
                     !.sort_reverse = reverse,
                     !.model_tree = sorted_rows(@, reverse),
                     !.ops = @ + 1]
  /\ BasicFrame

NextBasic ==
  \/ basic_refresh_models
  \/ _refresh_models_thread
  \/ update_model_list
  \/ sort_treeview

InitBasic ==
  /\ InitAtRest
  /\ binary_path # None /\ tree # <<>>
  /\ budget = [ops |-> 0, lines |-> 0]
  /\ obs = ObsOff
  /\ cli = CliOff
  /\ drained = DrainedOff
  /\ InitBasicManager
  /\ pump = PumpScheduled

SpecBasic == InitBasic /\ [][NextBasic]_vars

\* ------------------------------------------------------------- claims
NonDecreasing(q) == \A i \in 1..Len(q), j \in 1..Len(q) : i <= j => q[i] <= q[j]

\* C1: within one pull_model invocation the percent values passed to
\* on_progress never decrease, whatever lines the binary prints, also when a
\* line's trailing percentage is lower than an earlier one.
C1_PullPercentNonDecreasing ==
  \A t \in 1..Len(threads) :
    threads[t].kind = "pull" => NonDecreasing(threads[t].cb_pcts)

\* A pull that saw 750% and then 57% has reported 100 for both lines.
C1_Witness ==
  \E t \in 1..Len(threads) :
    /\ threads[t].kind = "pull"
    /\ threads[t].lines = << <<"7", "5", "0", "%">>, <<"5", "7", "%">> >>
    /\ threads[t].cb_pcts = <<100, 100>>

\* The line without its trailing whitespace.
RECURSIVE RStrip(_)
RStrip(line) ==
  IF line # <<>> /\ line[Len(line)] \in Whitespace
  THEN RStrip(SubSeq(line, 1, Len(line) - 1))
  ELSE line

\* The digits that end right before position p of the line.
RECURSIVE DigitRun(_, _)
DigitRun(line, p) ==
  IF p > 1 /\ line[p - 1] \in Digits
  THEN Append(DigitRun(line, p - 1), line[p - 1])
  ELSE <<>>

\* The integer token that ends the line, immediately followed by '%' and by
\* nothing but whitespace: its digits, or <<>> when the line has none.
PercentToken(line) ==
  LET s == RStrip(line)
  IN  IF s # <<>> /\ s[Len(s)] = "%" THEN DigitRun(s, Len(s)) ELSE <<>>

\* C3: the extraction step. For a line that ends in an integer token n in
\* 0..100 followed by '%' and optional whitespace the new running maximum is
\* max(runningMax, n); for a line that ends in no percentage token it is
\* unchanged; 57% after a maximum of 40 gives 57 and 30% after 57 leaves 57.
\* (A token above 100 is the subject of C4.)
C3_ExtractionStep ==
  obs.phase = "out" =>
    LET tok == PercentToken(obs.line)
    IN  /\ (tok # <<>> /\ int(tok) <= 100)
             => obs.newMax = Max(obs.runningMax, int(tok))
        /\ tok = <<>> => obs.newMax = obs.runningMax
        /\ (obs.line = <<"5", "7", "%">> /\ obs.runningMax = 40) => obs.newMax = 57
        /\ (obs.line = <<"3", "0", "%">> /\ obs.runningMax = 57) => obs.newMax = 57

\* 30% observed after a running maximum of 57.
C3_Witness ==
  /\ obs.phase = "out"
  /\ obs.line = <<"3", "0", "%">>
  /\ obs.runningMax = 57
  /\ obs.newMax = 57

\* The values a pull or create thread's callback has put on progress_q: all
\* its puts but the one that ends work.
CallbackPuts(r) ==
  IF r.pc = "done" THEN SubSeq(r.prog_puts, 1, Len(r.prog_puts) - 1) ELSE r.prog_puts

\* C2: the values one pull or create operation puts on progress_q, the one
\* that ends the operation included, never decrease.
C2_ProgressPutsNonDecreasing ==
  \A t \in 1..Len(threads) :
    threads[t].kind \in {"pull", "create"} => NonDecreasing(threads[t].prog_puts)

InRange(q) == \A i \in 1..Len(q) : q[i] \in 0..100

\* C4: every percent value reported for a streaming invocation, to the
\* progress callback and to the progress queue, is an integer in 0..100.
C4_PercentInRange ==
  /\ InRange(progress_q)
  /\ \A t \in 1..Len(threads) : InRange(threads[t].cb_pcts) /\ InRange(threads[t].prog_puts)

\* How many of the lines end in a percentage token.
RECURSIVE MarkerCount(_)
MarkerCount(lines) ==
  IF lines = <<>> THEN 0
  ELSE MarkerCount(SubSeq(lines, 1, Len(lines) - 1))
       + (IF PercentToken(lines[Len(lines)]) # <<>> THEN 1 ELSE 0)

\* The lines a thread has read whose callback has put them on log_q: all but
\* the line on_progress still holds.
LinesForwarded(r) ==
  IF r.kind = "pull" /\ r.pc = "cb_log"
  THEN SubSeq(r.lines, 1, Len(r.lines) - 1) ELSE r.lines

\* What a thread has put on log_q while streaming: all but the message that
\* ends the operation.
StreamLogPuts(r) ==
  IF r.pc \in {"read", "cb_log", "cb_progress"} THEN r.log_puts
  ELSE SubSeq(r.log_puts, 1, Len(r.log_puts) - 1)

\* C5 as stated: a line without a percentage marker causes no put on
\* progress_q (the callback puts at most one value per line that has the
\* marker), and every line is put on log_q.
C5_NoMarkerNoProgressPut ==
  \A t \in 1..Len(threads) :
    threads[t].kind \in {"pull", "create"} =>
      /\ Len(CallbackPuts(threads[t])) <= MarkerCount(threads[t].lines)
      /\ StreamLogPuts(threads[t]) = LinesForwarded(threads[t])

\* C5 as amended: a line without a percentage marker reports no new value.
\* pull_model still calls on_progress for it, which puts the unchanged
\* running maximum (0 before any percentage) on progress_q again; the create
\* flows put nothing on progress_q for it; every line is put on log_q.
C5_NoMarkerReportsNothingNew ==
  \A t \in 1..Len(threads) :
    LET r   == threads[t]
        cbs == CallbackPuts(r)
    IN  /\ r.kind = "pull" =>
             /\ Len(cbs) = Len(r.lines)
             /\ \A i \in 1..Len(cbs) :
                  PercentToken(r.lines[i]) = <<>> =>
                    cbs[i] = (IF i = 1 THEN 0 ELSE cbs[i - 1])
        /\ r.kind = "create" =>
             Len(cbs) = MarkerCount(r.lines) - (IF r.pc = "cb_progress" THEN 1 ELSE 0)
        /\ r.kind \in {"pull", "create"} => StreamLogPuts(r) = LinesForwarded(r)

\* A pull has read 57% and then a line without a marker: 57 was put twice and
\* both lines are on the log.
C5_Witness ==
  \E t \in 1..Len(threads) :
    /\ threads[t].kind = "pull" /\ threads[t].pc = "read"
    /\ threads[t].lines = << <<"5", "7", "%">>, <<"x">> >>
    /\ threads[t].prog_puts = <<57, 57>>
    /\ threads[t].log_puts = << <<"5", "7", "%">>, <<"x">> >>

\* C6: the pump hands every item put on log_q to the logger exactly once and
\* in put order, and none is dropped: what was logged, followed by what is
\* still queued, is always what was put, and the queue is emptied again and
\* again, under any interleaving of the producers and the pump.
C6_LogFifoDelivery ==
  /\ [](logged \o log_q = pushed_log)
  /\ []<>(log_q = <<>>)

\* Two threads have put items on log_q and the pump has logged them all.
C6_Witness ==
  /\ log_q = <<>>
  /\ Len(logged) >= 3
  /\ \E t, u \in 1..Len(threads) :
       t # u /\ threads[t].log_puts # <<>> /\ threads[u].log_puts # <<>>

\* C7: no background thread touches the UI directly: every effect on the UI
\* goes through status_q, progress_q or log_q.
C7_NoDirectUiAccess == bg_ui_calls = {}

\* A refresh is under way: a refresh thread runs, or a callback scheduled with
\* after(0, ...) is pending.
RefreshInFlight ==
  \/ \E t \in 1..Len(threads) : threads[t].kind = "refresh" /\ threads[t].pc # "done"
  \/ after_q # <<>>

\* C8: once every refresh in flight has finished, the inventory shown is
\* exactly the sequence one list_models call returned, also when refreshes
\* overlap.
C8_InventoryIsOneListing == ~RefreshInFlight => tree \in listed

\* C9: no process is spawned, and none waited for, on the UI thread.
C9_NoSpawnOnUiThread == \A s \in spawns : s[1] = "bg"

\* C10: a put never waits for the pump: every background operation runs to
\* its end, also when the pump never runs or runs late.
C10_OperationsComplete == <>[](Running = {})

\* A pull has ended while the pump has not run once: everything it put is
\* still queued.
C10_Witness ==
  /\ \E t \in 1..Len(threads) : threads[t].kind = "pull" /\ threads[t].pc = "done"
  /\ logged = <<>> /\ Len(log_q) >= 2
  /\ Len(progress_q) >= 2
  /\ status_q = << <<"Ready">> >>

\* s is t with some of its items left out.
RECURSIVE IsSubseq(_, _)
IsSubseq(s, t) ==
  IF s = <<>> THEN TRUE
  ELSE IF t = <<>> THEN FALSE
  ELSE IF Head(s) = Head(t) THEN IsSubseq(Tail(s), Tail(t))
  ELSE IsSubseq(s, Tail(t))

\* C11: within one streaming invocation the line callback runs once per
\* output line, in the order the subprocess produced the lines, and what the
\* callback put on log_q reaches the logger in that order: the lines put are
\* the lines read, and they appear in that order in what was logged followed
\* by what is still queued.
C11_LinesInOrder ==
  \A t \in 1..Len(threads) :
    LET r == threads[t]
    IN  r.kind \in {"pull", "create", "copy"} =>
          /\ StreamLogPuts(r) = LinesForwarded(r)
          /\ r.kind = "pull" => Len(r.cb_pcts) = Len(r.lines)
          /\ IsSubseq(r.log_puts, logged \o log_q)

\* A pull has printed 57% and then x, and the pump has logged both lines, in
\* two passes.
C11_Witness ==
  /\ \E t \in 1..Len(threads) :
       /\ threads[t].kind = "pull"
       /\ threads[t].lines = << <<"5", "7", "%">>, <<"x">> >>
       /\ threads[t].pc = "read"
  /\ logged = << <<"5", "7", "%">>, <<"x">> >>
  /\ log_q = <<>>

\* C12: on every exit path of a streaming invocation, a callback exception
\* included, the subprocess has been waited for or terminated and its output
\* pipe released before the invocation returns.
C12_ProcessReleasedOnReturn ==
  (cli.pc = "returned" /\ cli.op \in StreamingOps /\ cli.created = 1) =>
    /\ cli.proc \in {"reaped", "killed"}
    /\ cli.pipe = "closed"

\* The (ok, message) pairs a terminal operation returns after a non-zero exit.
NonZeroExitOutcomes(op) ==
  {[ok |-> exit_ok(code), msg |-> TerminalMsg(op, code, text)] :
     code \in Codes \ {0}, text \in StdTexts}

C14_OkIffExitZero ==
  (cli.pc = "returned" /\ cli.op \in OutcomeOps) =>
    (cli.ok <=> (cli.created = 1 /\ cli.cause = "exit" /\ cli.code = 0))

\* stop_model has returned after its process exited with code 1.
C14_Witness ==
  /\ cli.pc = "returned" /\ cli.op = "stop_model"
  /\ cli.cause = "exit" /\ cli.code = 1 /\ ~cli.ok

\* C15: without a binary path, show_modelfile returns a NotFound outcome and
\* does not attempt a spawn.
C15_ExportShortCircuits ==
  (cli.op = "show_modelfile" /\ cli.binary = None /\ cli.pc = "returned") =>
    /\ cli.attempts = 0
    /\ ~cli.ok
    /\ cli.msg = NotFoundText

\* The operations that depend on the binary.
DependentOps ==
  {"list_models", "show_modelfile", "show_parameters", "remove_model", "pull_model",
   "create_model_from_modelfile", "run_model_once", "stop_model", "prune"}

\* C16: without a binary path every dependent operation is disabled: none
\* reaches its spawn, and list_models returns an empty inventory.
C16_UnresolvedDisablesAll ==
  (cli.binary = None /\ cli.op \in DependentOps) =>
    /\ cli.attempts = 0
    /\ (cli.pc = "returned" /\ cli.op = "list_models") => cli.models = <<>>

\* C17: a failure to spawn surfaces as a failed outcome the operation
\* returns; it never leaves the operation as an exception.
C17_SpawnFailureIsAnOutcome ==
  /\ cli.pc # "raised"
  /\ (cli.cause = "spawn_failure" /\ cli.op \in OutcomeOps) =>
       (cli.pc = "returned" /\ ~cli.ok)

\* The structured listing did not decode to a list of dicts.
Malformed(json) ==
  \/ json.kind = "invalid"
  \/ json.kind = "list" /\ \E i \in 1..Len(json.items) : ~json.items[i].dict

\* C18: for a malformed structured listing list_models raises nothing and
\* returns what the text fallback path gives.
C18_MalformedFallsBack ==
  /\ cli.op = "list_models" => cli.pc # "raised"
  /\ (cli.op = "list_models" /\ cli.pc = "returned" /\ Malformed(cli.json)) =>
       cli.models = fallback(<<>>, cli.text)

\* C19: for a valid structured listing list_models returns one record per
\* entry, in the order of the entries, and does not run the fallback.
C19_OneRecordPerEntry ==
  (cli.op = "list_models" /\ cli.pc = "returned"
     /\ cli.json.kind = "list" /\ ~Malformed(cli.json)) =>
    /\ Len(cli.models) = Len(cli.json.items)
    /\ \A i \in 1..Len(cli.models) : cli.models[i].name = cli.json.items[i].name
    /\ cli.text = NoText

\* A structured listing of llama3:8b and mistral:7b-q4_0 has been returned.
C19_Witness ==
  /\ cli.op = "list_models" /\ cli.pc = "returned"
  /\ cli.json.kind = "list"
  /\ Len(cli.models) = 2
  /\ cli.models[1].name = llama3_8b /\ cli.models[2].name = mistral_7b_q4_0

\* The longest prefix of the name that holds no ':'.
FamilyRule(name) ==
  CHOOSE p \in {SubSeq(name, 1, i) : i \in 0..Len(name)} :
    /\ \A j \in 1..Len(p) : p[j] # ":"
    /\ Len(p) = Len(name) \/ name[Len(p) + 1] = ":"

\* The parts of the text between its '-' characters.
RECURSIVE DashParts(_)
DashParts(text) ==
  IF \E i \in 1..Len(text) : text[i] = "-"
  THEN LET i == CHOOSE a \in 1..Len(text) :
                  text[a] = "-" /\ \A b \in 1..(a - 1) : text[b] # "-"
       IN  <<SubSeq(text, 1, i - 1)>> \o DashParts(SubSeq(text, i + 1, Len(text)))
  ELSE <<text>>

\* Where the part holds a q or Q that a digit follows.
QuantStarts(part) ==
  {i \in 1..(Len(part) - 1) : part[i] \in {"q", "Q"} /\ part[i + 1] \in DecimalDigits}

\* The quantization token of the name: in the variant, the text after the
\* first ':', the first part between dashes that holds a q with a digit after
\* it, from that q on; empty without a ':' or without such a part.
QuantRule(name) ==
  IF \A i \in 1..Len(name) : name[i] # ":" THEN <<>>
  ELSE LET variant == SubSeq(name, Len(FamilyRule(name)) + 2, Len(name))
           parts == DashParts(variant)
           hits == {k \in 1..Len(parts) : QuantStarts(parts[k]) # {}}
       IN  IF hits = {} THEN <<>>
           ELSE LET k == CHOOSE a \in hits : \A b \in hits : a <= b
                    i == CHOOSE a \in QuantStarts(parts[k]) :
                           \A b \in QuantStarts(parts[k]) : a <= b
                IN  SubSeq(parts[k], i, Len(parts[k]))

\* C20: every record list_models returns, from either path, has family equal
\* to the name up to its first ':' (the whole name without one) and quant
\* equal to the quantization token of its variant (empty without one):
\* llama3:8b gives llama3 and "", mistral:7b-q4_0 gives q4_0.
C20_DerivedFromName ==
  (cli.op = "list_models" /\ cli.pc = "returned") =>
    \A i \in 1..Len(cli.models) :
      LET r == cli.models[i]
      IN  /\ r.family = FamilyRule(r.name)
          /\ r.quant = QuantRule(r.name)
          /\ r.name = llama3_8b =>
               (r.family = <<"l", "l", "a", "m", "a", "3">> /\ r.quant = <<>>)
          /\ r.name = mistral_7b_q4_0 => r.quant = <<"q", "4", "_", "0">>

\* The fallback path has returned the record of mistral:7b-q4_0.
C20_Witness ==
  /\ cli.op = "list_models" /\ cli.pc = "returned" /\ cli.text.kind = "lines"
  /\ \E i \in 1..Len(cli.models) :
       /\ cli.models[i].name = mistral_7b_q4_0
       /\ cli.models[i].family = <<"m", "i", "s", "t", "r", "a", "l">>
       /\ cli.models[i].quant = <<"q", "4", "_", "0">>

\* The lines after the first non-blank one that have at least k tokens.
RECURSIVE LinesOfAtLeast(_, _)
LinesOfAtLeast(lines, k) ==
  IF lines = <<>> THEN <<>>
  ELSE (IF Len(Head(lines)) >= k THEN <<Head(lines)>> ELSE <<>>)
         \o LinesOfAtLeast(Tail(lines), k)

RECURSIVE AfterHeader(_)
AfterHeader(lines) ==
  IF lines = <<>> THEN <<>>
  ELSE IF Head(lines) = <<>> THEN AfterHeader(Tail(lines))
  ELSE Tail(lines)

\* The last n records of the result.
LastRecords(models, n) == SubSeq(models, Len(models) - n + 1, Len(models))

\* The tokens of a line before its three trailing ones.
LeadingTokens(parts) == SubSeq(parts, 1, Len(parts) - 3)

\* The three trailing tokens of a line are the record's size and its
\* two-token modification time.
TrailingThree(rec, parts) ==
  /\ rec.size = parts[Len(parts) - 2]
  /\ Len(rec.modified) = 2
  /\ rec.modified = <<parts[Len(parts) - 1], parts[Len(parts)]>>

\* C21: the record of a data line of the text listing has for name all the
\* leading tokens of the line up to its three trailing ones, which are its
\* size and its two-token modification time; in list_models, whose name is
\* one token, and in the basic manager, whose name is the tokens it joins.
C21_NameIsLeadingTokens ==
  /\ (cli.pc = "returned" /\ cli.op = "list_models" /\ cli.text.kind = "lines") =>
       LET data == LinesOfAtLeast(AfterHeader(cli.text.lines), 4)
           recs == LastRecords(cli.models, Len(data))
       IN  /\ Len(cli.models) >= Len(data)
           /\ \A i \in 1..Len(data) :
                /\ Len(LeadingTokens(data[i])) = 1
                /\ recs[i].name = LeadingTokens(data[i])[1]
                /\ TrailingThree(recs[i], data[i])
  /\ (cli.pc = "returned" /\ cli.op \in BasicListOps /\ cli.text.kind = "lines") =>
       LET data == LinesOfAtLeast(AfterHeader(cli.text.lines), 5)
       IN  /\ Len(cli.models) = Len(data)
           /\ \A i \in 1..Len(data) :
                /\ Len(cli.models[i].name) = Len(LeadingTokens(data[i]))
                /\ cli.models[i].name = LeadingTokens(data[i])
                /\ TrailingThree(cli.models[i], data[i])

\* list_models alone, on the lines of exactly four tokens: there the name is
\* the first token and the other three are the size and the time.
C21_FourTokenLines ==
  (cli.pc = "returned" /\ cli.op = "list_models" /\ cli.text.kind = "lines") =>
    LET data == LinesOfAtLeast(AfterHeader(cli.text.lines), 4)
        recs == LastRecords(cli.models, Len(data))
    IN  \A i \in 1..Len(data) :
          Len(data[i]) = 4 =>
            /\ recs[i].name = LeadingTokens(data[i])[1]
            /\ TrailingThree(recs[i], data[i])

\* The basic manager alone: the size and the time of its entry are the three
\* trailing tokens of the line.
C21_BasicTrailingThree ==
  (cli.pc = "returned" /\ cli.op \in BasicListOps /\ cli.text.kind = "lines") =>
    LET data == LinesOfAtLeast(AfterHeader(cli.text.lines), 5)
    IN  /\ Len(cli.models) = Len(data)
        /\ \A i \in 1..Len(data) : TrailingThree(cli.models[i], data[i])

Trimmed(text) ==
  text = <<>> \/ (text[1] \notin Blank /\ text[Len(text)] \notin Blank)

\* C23: the message of every outcome an OllamaCLI operation returns has no
\* leading and no trailing whitespace.
C23_MessageTrimmed ==
  (cli.pc = "returned" /\ cli.op \in OutcomeOps) => Trimmed(cli.msg)

\* The operations that strip what they read or return a literal do return a
\* trimmed message.
C23_TrimmedWhereStripped ==
  (cli.pc = "returned"
     /\ cli.op \in {"ensure_available", "remove_model", "stop_model", "pull_model",
                    "create_model_from_modelfile"}) => Trimmed(cli.msg)

\* The text without the whitespace at its ends.
TrimOf(text) ==
  LET keep == {i \in 1..Len(text) : text[i] \notin Blank}
  IN  IF keep = {} THEN <<>>
      ELSE SubSeq(text, CHOOSE a \in keep : \A b \in keep : a <= b,
                        CHOOSE a \in keep : \A b \in keep : a >= b)

\* A terminal operation has returned after the process exited with a code
\* other than 0.
NonZeroExit ==
  cli.pc = "returned" /\ cli.op \in TerminalOps /\ cli.cause = "exit" /\ cli.code # 0

\* C24: after a non-zero exit the message of a terminal operation is the
\* trimmed standard error, or a synthesized message that is not empty when
\* the standard error is empty or holds only whitespace; it is never empty.
C24_FailureMessageNotEmpty ==
  NonZeroExit =>
    /\ cli.msg # <<>>
    /\ TrimOf(cli.std) # <<>> => cli.msg = TrimOf(cli.std)

\* ensure_available, remove_model and stop_model return the trimmed standard
\* error when it holds text and their literal when it is empty.
C24_StrippedOrLiteral ==
  (NonZeroExit /\ cli.op \in {"ensure_available", "remove_model", "stop_model"}) =>
    /\ TrimOf(cli.std) # <<>> => cli.msg = TrimOf(cli.std)
    /\ cli.std = <<>> => cli.msg # <<>>

\* The piece occurs in the text.
Contains(text, piece) ==
  \E a \in 1..(Len(text) - Len(piece) + 1) :
    SubSeq(text, a, a + Len(piece) - 1) = piece

\* C25: the message of the outcome of a streaming operation holds none of
\* the lines that the line callback has been given.
C25_MessageOmitsDelivered ==
  (cli.pc = "returned" /\ cli.op \in StreamingOps) =>
    \A i \in 1..Len(cli.delivered) : ~Contains(cli.msg, cli.delivered[i])

\* pull_model and create_model_from_modelfile return a literal, which holds
\* no line they have delivered.
C25_LiteralsOmitDelivered ==
  (cli.pc = "returned" /\ cli.op \in {"pull_model", "create_model_from_modelfile"}) =>
    \A i \in 1..Len(cli.delivered) : ~Contains(cli.msg, cli.delivered[i])

\* C26: a streaming operation that has started its process returns only
\* after the output has reached its end and the process has been waited
\* for, and no line is delivered to the callback after the return.
C26_ReturnsAfterEofAndExit ==
  /\ (cli.pc = "returned" /\ cli.op \in StreamingOps /\ cli.created > 0) =>
       (cli.eof /\ cli.proc = "reaped")
  /\ (cli.pc = "returned" /\ cli.op \in StreamingOps) =>
       ~ENABLED (StreamLine \/ StreamCallbackRaises)

\* When no callback raises, the return comes after the end of the output and
\* the exit of the process.
C26_ReturnsAfterEofUnlessCallbackRaises ==
  (cli.pc = "returned" /\ cli.op \in StreamingOps /\ cli.created > 0
     /\ cli.cause # "callback") =>
    (cli.eof /\ cli.proc = "reaped")

\* C27: when create_model_from_modelfile has returned, whatever the outcome,
\* the temporary Modelfile it made does not exist.
C27_TempfileGoneOnReturn ==
  (cli.pc = "returned" /\ cli.op = "create_model_from_modelfile") =>
    cli.tmpfile # "exists"

\* Once the text has been written, the file is removed on every way out:
\* success, a non-zero exit, a spawn failure and a callback that raises.
C27_RemovedOnceWritten ==
  (cli.pc = "returned" /\ cli.op = "create_model_from_modelfile"
     /\ cli.cause \in {"exit", "spawn_failure", "callback"}) =>
    cli.tmpfile = "removed"

\* C28: a pump pass that finds items in the status queue leaves on display
\* the one pushed last among those it takes, and likewise for the progress
\* queue: the latest value wins.
C28_LatestValueWins ==
  [][/\ (ui_pc = "idle" /\ ui_pc' = "progress" /\ status_q # <<>>) =>
          status_var' = status_q[Len(status_q)]
     /\ (ui_pc = "progress" /\ ui_pc' = "log" /\ progress_q # <<>>) =>
          progress_var' = progress_q[Len(progress_q)]]_vars

\* A pass has taken two different items from the status queue and two from
\* the progress queue, and the display shows the later of each.
C28_Witness ==
  /\ drained.on /\ ui_pc = "log"
  /\ Len(drained.status) >= 2 /\ drained.status[1] # drained.status[Len(drained.status)]
  /\ Len(drained.progress) >= 2
  /\ drained.progress[1] # drained.progress[Len(drained.progress)]
  /\ status_var = drained.status[Len(drained.status)]
  /\ progress_var = drained.progress[Len(drained.progress)]

\* The end of a pass: the three queues are empty, the log lines the pass took
\* are the last ones logged, in their order, and the display shows the last
\* status and the last progress it took.
PassDone ==
  /\ status_q = <<>> /\ progress_q = <<>> /\ log_q = <<>>
  /\ Len(logged) >= Len(drained.log)
  /\ SubSeq(logged, Len(logged) - Len(drained.log) + 1, Len(logged)) = drained.log
  /\ drained.status # <<>> => status_var = drained.status[Len(drained.status)]
  /\ drained.progress # <<>> => progress_var = drained.progress[Len(drained.progress)]

\* C29: in a pass during which no producer pushes, each loop takes every
\* item of its queue, and at the end of the pass the status, progress and
\* log queues are all empty and what was taken has been applied.
C29_PassDrainsEverything ==
  [][/\ (ui_pc = "idle" /\ ui_pc' = "progress") =>
          /\ drained'.status = status_q /\ status_q' = <<>>
          /\ progress_q' = progress_q /\ log_q' = log_q
     /\ (ui_pc = "progress" /\ ui_pc' = "log") =>
          /\ drained'.progress = progress_q /\ progress_q' = <<>>
          /\ log_q' = log_q
     /\ (ui_pc = "log" /\ ui_pc' = "idle") =>
          /\ drained'.log = log_q
          /\ PassDone']_vars

\* A pass has ended that took items from each of the three queues, two or
\* more of them log lines.
C29_Witness ==
  /\ drained.on /\ ui_pc = "idle"
  /\ drained.status # <<>> /\ drained.progress # <<>> /\ Len(drained.log) >= 2
  /\ PassDone

\* C30: _find_ollama returns what the executable search path gives when it
\* gives a path; otherwise the first path, in list order, of the guess list
\* of the current platform that exists on disk; otherwise None, and it
\* raises nothing.
C30_FindOllamaOrder ==
  (cli.op = "_find_ollama" /\ cli.pc # "call") =>
    LET g == guesses(cli.platform)
        idx == {i \in 1..Len(g) : g[i] \in cli.exists}
    IN  /\ cli.pc = "returned"
        /\ cli.which # None => cli.result = cli.which
        /\ (cli.which = None /\ idx # {}) =>
             \E i \in idx : cli.result = g[i] /\ \A j \in idx : i <= j
        /\ (cli.which = None /\ idx = {}) => cli.result = None

\* On darwin, with nothing on the search path and the second and third
\* guesses on disk beside a path of another platform's list, the second
\* guess has been returned.
C30_Witness ==
  /\ cli.op = "_find_ollama" /\ cli.pc = "returned"
  /\ cli.platform = "darwin" /\ cli.which = None
  /\ cli.exists = {"/opt/homebrew/bin/ollama", "/usr/local/bin/ollama", "/usr/bin/ollama"}
  /\ cli.result = "/opt/homebrew/bin/ollama"

TextRecords(out) ==
  LET lines == NonBlankLines(out.lines)
  IN  IF out.kind = "raises" \/ Len(lines) <= 1 THEN <<>>
      ELSE records_text(SelectLines(Tail(lines)))

\* C33: the inventory list_models returns comes from one path: when the
\* text fallback has appended records, the result holds those records and
\* none the structured path had built before it failed.
C33_InventoryFromOnePath ==
  (cli.op = "list_models" /\ cli.pc = "returned" /\ cli.text # NoText
     /\ TextRecords(cli.text) # <<>>) =>
    cli.models = TextRecords(cli.text)


\* Nothing is left to apply: every thread has ended, the three queues are
\* drained, no scheduled callback is pending and no handler is running.
AllApplied ==
  /\ Running = {}
  /\ status_q = <<>> /\ progress_q = <<>> /\ log_q = <<>>
  /\ after_q = <<>>
  /\ ui_pc = "idle"

\* C34: once a pull or create has ended and everything queued or scheduled,
\* the refresh it triggers included, has been applied, the progress
\* indicator shows 100 when the operation succeeded and 0 when it failed.
C34_FinalProgressIsOutcome ==
  \A t \in 1..Len(threads) :
    (AllApplied /\ threads[t].kind \in {"pull", "create"} /\ threads[t].pc = "done") =>
      progress_var = (IF threads[t].ok THEN 100 ELSE 0)


\* Whether s is an initial segment of q.
IsPrefix(s, q) == Len(s) <= Len(q) /\ s = SubSeq(q, 1, Len(s))

\* C35: a removal attempts the selected names once each, in the order of
\* the selection, whatever the earlier attempts returned; it puts one log
\* line and one progress value per name, the progress values never
\* decrease and the last is 100; it schedules one refresh, and none before
\* the last name has been attempted.
C35_RemoveEachOnceInOrder ==
  \A t \in 1..Len(threads) :
    threads[t].kind = "remove" =>
      LET th == threads[t]
      IN  /\ IsPrefix(th.attempted, th.names)
          /\ Len(th.log_puts) <= Len(th.attempted)
          /\ Len(th.prog_puts) <= Len(th.log_puts)
          /\ Len(th.attempted) <= Len(th.prog_puts) + 1
          /\ \A i \in 1..Len(th.log_puts) : th.log_puts[i][2] = th.names[i]
          /\ NonDecreasing(th.prog_puts)
          /\ th.after_calls <= 1
          /\ th.after_calls = 1 <=> th.pc = "done"
          /\ th.pc \in {"after_refresh", "done"} =>
               /\ th.attempted = th.names
               /\ Len(th.log_puts) = Len(th.names)
               /\ Len(th.prog_puts) = Len(th.names)
               /\ Last(th.prog_puts) = 100

\* A removal of three models has ended: the first attempt failed, the
\* second succeeded (and the third was made all the same).
C35_Witness ==
  \E t \in 1..Len(threads) :
    /\ threads[t].kind = "remove" /\ threads[t].pc = "done"
    /\ Len(threads[t].names) = 3
    /\ threads[t].log_puts[1][4] = "FAIL"
    /\ threads[t].log_puts[2][4] = "OK"
    /\ threads[t].prog_puts = <<33, 66, 100>>


\* C32: nothing excludes one background operation from another: whenever
\* the event loop is free and the tree has a row, the Remove and the Copy
\* handlers start a new thread, whatever threads are running and whatever
\* models they work on.
C32_NoMutualExclusion ==
  (ui_pc = "idle" /\ tree # <<>>) =>
    /\ ENABLED remove_selected
    /\ ENABLED copy_selected

\* A removal and a copy that name the same model are in flight together,
\* and every operation started so far is still running.
C32_Witness ==
  /\ \E t, u \in Running :
       /\ threads[t].kind = "remove" /\ threads[u].kind = "copy"
       /\ threads[t].attempted # <<>>
       /\ threads[u].pc = "read"
       /\ \E i \in 1..Len(threads[t].names) : threads[t].names[i] = threads[u].names[1]
  /\ Cardinality(Running) = ops
  /\ ops = budget.ops


\* How many of the rows are equal to row.
Occurrences(row, rows) == Cardinality({i \in 1..Len(rows) : rows[i] = row})

\* The same rows, each as many times, in any order.
SameRows(rows, items) ==
  /\ Len(rows) = Len(items)
  /\ \A i \in 1..Len(items) : Occurrences(items[i], rows) = Occurrences(items[i], items)

\* C37: in the basic manager, once an update has run, the rows displayed
\* are the rows of one refresh result (in the order of the sort), model_data
\* is the dict of that same result, and every key of model_data is the tag
\* of a displayed row, however the refreshes overlap.
C37_TreeIsOneRefreshResult ==
  basic.on =>
    /\ basic.updates = 0 => basic.model_tree = <<>> /\ DOMAIN basic.model_data = {}
    /\ basic.updates > 0 =>
         \E tree_items \in basic.results :
           /\ SameRows(basic.model_tree, tree_items)
           /\ basic.model_data = models_of(tree_items)
    /\ \A k \in DOMAIN basic.model_data :
         \E i \in 1..Len(basic.model_tree) : basic.model_tree[i].full_name = k

\* Refreshes have overlapped and their results differed; the last update
\* has run, and the tree shows two rows in another order than their result.
C37_Witness ==
  /\ basic.on /\ basic.overlapped
  /\ basic.updates >= 2 /\ basic.threads = 0 /\ basic.after_q = <<>>
  /\ Cardinality(basic.results) >= 2
  /\ Len(basic.model_tree) = 2
  /\ basic.model_tree \notin basic.results


\* C36: the pump is scheduled again at the end of every pass, a pass in
\* which applying an item raised included: whenever no pass is running the
\* pump is scheduled, and passes begin again and again.
C36_PumpKeepsPolling ==
  /\ [](ui_pc = "idle" => pump.scheduled)
  /\ []<><<PumpStatus \/ PumpStatusRaises>>_vars

\* Passes have raised, and a later pass has got to its log loop.
C36_Witness ==
  /\ pump.raised = MaxRaises
  /\ ui_pc = "log"
  /\ log_q # <<>>

====
